---------------------------- MODULE Spec2Model ----------------------------
(***************************************************************************)
(* docker-volume-manager: the volume catalog (MemoryStore / EtcdStore),    *)
(* the control-plane request handlers of VolumeHandler and the local       *)
(* storage backend, as a state machine.                                    *)
(*                                                                         *)
(* Every HTTP request is served by its own goroutine; a request occupies a *)
(* slot of reqs and advances one shared-memory access, store call or       *)
(* backend call at a time.  *types.Volume values are heap objects: the     *)
(* MemoryStore keeps and hands out the pointer itself, the EtcdStore keeps *)
(* the JSON text and hands out a freshly allocated copy.                   *)
(*                                                                         *)
(* Modelling conventions                                                   *)
(*  - uuid.New() is a counter (nextID): identifiers never repeat.          *)
(*  - time.Now() reads a logical clock that advances with every reading;   *)
(*    the two readings of HandleCreate, one line apart, are one reading.   *)
(*  - a path is a sequence of one-character strings.                       *)
(*  - etcd client calls and the MemoryStore mutex never fail; each etcd    *)
(*    round trip (Get, Put, Txn) and each MemoryStore method is one step.  *)
(*  - a handler's access to a *types.Volume the MemoryStore shares with    *)
(*    other goroutines is one step per field read or written (a slice      *)
(*    header is read and written whole); its accesses to the private copy  *)
(*    EtcdStore.GetVolume allocated are local and join the step before.    *)
(*  - the response of a handler that holds a record the MemoryStore shares *)
(*    encodes the record in one step.                                      *)
(*  - os.MkdirAll records the directory it is asked for, not its parents.  *)
(*  - a new request takes the first free slot.                             *)
(***************************************************************************)
EXTENDS Integers, Sequences, FiniteSets, TLC

\* ------------------------------------------------------------------ bounds
\* readings of time.Now() in one run of the general specification
MaxClock == 2
\* concurrent create requests in the specification of concurrent creation
MaxCreators == 3
\* identifiers uuid.New() may hand out in one run: every create that passes
\* validation takes one, and reads the clock
MaxIDs == IF MaxClock + 1 > MaxCreators THEN MaxClock + 1 ELSE MaxCreators

\* the request slots (goroutines); the general specification runs two
\* requests at a time
Slots == 1..MaxCreators
Reqs == {1, 2}
NoID == 0

\* ------------------------------------------------------------- input values
Nodes == {"n1", "n2"}

AbsPath == <<"/", "d">>
RelPath == <<"d">>
StagePath == <<"/", "s">>
TargetPath == <<"/", "t">>
MarkerName == <<"/", ".", "m">>

\* Parameters is a map[string]string: here the set of its <<key, value>> pairs
EmptyParams == {}
PathParams(p) == {<<"path", p>>}

\* the create requests tried: two valid ones, and one for each way HandleCreate
\* rejects a request
CreateInputs ==
    {<<"a", "local", PathParams(AbsPath)>>,
     <<"b", "local", PathParams(AbsPath)>>,
     <<"", "local", PathParams(AbsPath)>>,
     <<"a", "", PathParams(AbsPath)>>,
     <<"a", "zip", PathParams(AbsPath)>>,
     <<"a", "local", EmptyParams>>,
     <<"a", "local", PathParams(<<>>)>>,
     <<"a", "local", PathParams(RelPath)>>}

\* --------------------------------------------------------------- constants
VolumeStatusCreated == "created"
VolumeStatusStaging == "staging"
VolumeStatusStaged == "staged"
VolumeStatusPublished == "published"
VolumeStatusFailed == "failed"

StatusCreated == 201
StatusOK == 200
StatusBadRequest == 400
StatusNotFound == 404
StatusMethodNotAllowed == 405
StatusConflict == 409
StatusInternalServerError == 500

\* pointers: 0 is nil, 1..MaxIDs the objects built by HandleCreate, the rest
\* the objects EtcdStore.GetVolume allocates for the request of a slot
NilPtr == 0
VolPtr(id) == id
ReqPtr(r) == MaxIDs + r
Ptrs == 1..(MaxIDs + MaxCreators)

\* the zero value of types.Volume
ZeroVolume ==
    [ID |-> NoID, Name |-> "", Backend |-> "", Parameters |-> EmptyParams,
     Status |-> "", StagedOn |-> <<>>, PublishedOn |-> <<>>,
     CreatedAt |-> 0, UpdatedAt |-> 0]

\* ---------------------------------------------------------------- variables
VARIABLES
    impl,        \* "memory" or "etcd": cfg.EtcdEnabled, fixed at startup
    memVolumes,  \* MemoryStore.volumes: ID -> pointer
    memNames,    \* MemoryStore.names: name -> ID
    kvVolumes,   \* etcd keys under /volumes/: ID -> JSON text of the record
    kvNames,     \* etcd keys under /volume-names/: name -> ID
    heap,        \* the *types.Volume objects in memory: pointer -> struct
    fs,          \* the host filesystem: the set of paths that exist
    nextID,      \* identifiers handed out by uuid.New() so far
    clock,       \* readings of time.Now() so far
    reqs,        \* the request slots: handler position, inputs, locals, response
    registry,    \* storage.registry: backend name -> factory
    mainPC,      \* where main() of the volume manager is
    member,      \* the embedded etcd member: embed.Etcd
    server,      \* the HTTP server: echo.Echo
    rpc          \* the call the CSI driver is serving: its position and result

vars == <<impl, memVolumes, memNames, kvVolumes, kvNames, heap, fs, nextID, clock, reqs,
          registry, mainPC, member, server, rpc>>
storeVars == <<memVolumes, memNames, kvVolumes, kvNames>>
procVars == <<mainPC, member, server>>

\* ------------------------------------------------------------ request slots
NoBody == [none |-> TRUE]
NoResp == [code |-> 0, error |-> "", message |-> "", body |-> NoBody]

IdleReq ==
    [op |-> "none", pc |-> "idle", id |-> NoID, name |-> "", backend |-> "",
     params |-> EmptyParams, node |-> "", path |-> <<>>,
     volume |-> NilPtr, tmp |-> <<>>, calls |-> 0, resp |-> NoResp]

\* the CSI driver between two calls; code is the gRPC code of the last call,
\* status the HTTP status it got, vol the VolumeId it returned, dirs the
\* directories it has made on its node
IdleRpc ==
    [method |-> "none", pc |-> "idle", id |-> NoID, name |-> "", params |-> EmptyParams,
     readOnly |-> FALSE, status |-> 0, code |-> "", vol |-> NoID, dirs |-> {}]

\* a slot is free when no handler runs in it
Free(r) == reqs[r].pc \in {"idle", "done"}
InFlight(r) == ~Free(r)

\* ------------------------------------------------------------------ helpers
HasKey(params, k) == \E kv \in params : kv[1] = k
Lookup(params, k) == (CHOOSE kv \in params : kv[1] = k)[2]

\* filepath.IsAbs on a unix host
IsAbs(path) == Len(path) > 0 /\ path[1] = "/"

\* filepath.Join(target, ".volume-mount")
MarkerFile(target) == target \o MarkerName

\* encoding/json of types.Volume: staged_on and published_on are omitempty
Marshal(v) ==
    LET always == [id |-> v.ID, name |-> v.Name, backend |-> v.Backend,
                   parameters |-> v.Parameters, status |-> v.Status,
                   created_at |-> v.CreatedAt, updated_at |-> v.UpdatedAt]
        staged == IF Len(v.StagedOn) > 0 THEN ("staged_on" :> v.StagedOn) ELSE <<>>
        published == IF Len(v.PublishedOn) > 0 THEN ("published_on" :> v.PublishedOn) ELSE <<>>
    IN  always @@ staged @@ published

\* json.Unmarshal into a zero types.Volume: an absent key leaves the zero value
Unmarshal(j) ==
    [ID |-> IF "id" \in DOMAIN j THEN j["id"] ELSE ZeroVolume.ID,
     Name |-> IF "name" \in DOMAIN j THEN j["name"] ELSE ZeroVolume.Name,
     Backend |-> IF "backend" \in DOMAIN j THEN j["backend"] ELSE ZeroVolume.Backend,
     Parameters |-> IF "parameters" \in DOMAIN j THEN j["parameters"] ELSE ZeroVolume.Parameters,
     Status |-> IF "status" \in DOMAIN j THEN j["status"] ELSE ZeroVolume.Status,
     StagedOn |-> IF "staged_on" \in DOMAIN j THEN j["staged_on"] ELSE ZeroVolume.StagedOn,
     PublishedOn |-> IF "published_on" \in DOMAIN j THEN j["published_on"] ELSE ZeroVolume.PublishedOn,
     CreatedAt |-> IF "created_at" \in DOMAIN j THEN j["created_at"] ELSE ZeroVolume.CreatedAt,
     UpdatedAt |-> IF "updated_at" \in DOMAIN j THEN j["updated_at"] ELSE ZeroVolume.UpdatedAt]

\* a map without one key
Without(f, k) == [x \in DOMAIN f \ {k} |-> f[x]]

\* the objects still referenced by the store or by a running handler; the rest
\* is garbage and returns to the zero value
Collect(h, rs, mv) ==
    LET live == {mv[i] : i \in DOMAIN mv} \cup {rs[r].volume : r \in Slots}
    IN  [p \in Ptrs |-> IF p \in live THEN h[p] ELSE ZeroVolume]

\* c.JSON(code, ...): the handler returns, its locals go out of scope
Respond(r, code, error, message, body) ==
    [reqs[r] EXCEPT !.pc = "done", !.volume = NilPtr, !.tmp = <<>>,
                    !.resp = [code |-> code, error |-> error, message |-> message, body |-> body]]

\* a request entering a handler
NewReq(op, id) == [IdleReq EXCEPT !.op = op, !.id = id]

\* readings of time.Now() the running handlers will still make
PendingClock == Cardinality({r \in Slots : reqs[r].pc \in
                   {"stage_backend", "stage_status", "stage_read", "stage_append", "stage_time",
                    "publish_backend", "publish_status", "publish_read", "publish_append", "publish_time"}})

\* the first free slot among rs
FirstFree(r, rs) == r \in rs /\ Free(r) /\ \A q \in rs : q < r => InFlight(q)

\* ---------------------------------------------------------- backend registry
\* local.Backend.Capabilities
Capabilities ==
    [SupportsReadOnly |-> TRUE, SupportsReadWrite |-> TRUE,
     SupportsSnapshot |-> FALSE, SupportsClone |-> FALSE]

\* a storage.Factory is modelled by what calling it returns: a backend (its
\* Name() and Capabilities()) and an error, "" for nil
NoBackend == [Name |-> "", Capabilities |-> [SupportsReadOnly |-> FALSE, SupportsReadWrite |-> FALSE,
                                            SupportsSnapshot |-> FALSE, SupportsClone |-> FALSE]]

\* local.NewBackend
NewBackend == [backend |-> [Name |-> "local", Capabilities |-> Capabilities], err |-> ""]

\* storage.GetBackend: the backend and the error it returns
GetBackend(name) ==
    IF name \notin DOMAIN registry
    THEN [backend |-> NoBackend, err |-> "ErrBackendNotFound"]
    ELSE registry[name]

\* local.Backend.Validate: "" when the parameters are accepted
Validate(params) ==
    IF ~HasKey(params, "path") \/ Lookup(params, "path") = <<>>
    THEN "parameter 'path' is required"
    ELSE IF ~IsAbs(Lookup(params, "path"))
    THEN "path must be absolute"
    ELSE ""

\* ------------------------------------------------------------ metadata store
\* the records of the catalog, by ID, whichever store is configured
Records ==
    IF impl = "memory"
    THEN [i \in DOMAIN memVolumes |-> heap[memVolumes[i]]]
    ELSE [i \in DOMAIN kvVolumes |-> Unmarshal(kvVolumes[i])]

\* the name index, whichever store is configured
NameIndex == IF impl = "memory" THEN memNames ELSE kvNames

\* Store.GetVolume: found, and the pointer and heap the caller gets
GetFound(id) == id \in DOMAIN Records
GetPtr(r, id) == IF impl = "memory" THEN memVolumes[id] ELSE ReqPtr(r)
GetHeap(r, id) ==
    IF impl = "memory" THEN heap
    ELSE [heap EXCEPT ![ReqPtr(r)] = Unmarshal(kvVolumes[id])]

\* ------------------------------------------------------------------- Init
Init ==
    /\ impl \in {"memory", "etcd"}
    /\ memVolumes = <<>>
    /\ memNames = <<>>
    /\ kvVolumes = <<>>
    /\ kvNames = <<>>
    /\ heap = [p \in Ptrs |-> ZeroVolume]
    /\ fs = {}
    /\ nextID = 0
    /\ clock = 0
    /\ reqs = [r \in Slots |-> IdleReq]
    /\ registry = ("local" :> NewBackend)
    /\ mainPC = "quit"
    /\ member = IF impl = "etcd" THEN "ready" ELSE "none"
    /\ server = "listening"
    /\ rpc = IdleRpc

\* ------------------------------------------------------------ HandleCreate
\* HandleCreate without the lookup of the backend in the registry
CreateValidationNoRegistry(name, backend, params) ==
    IF name = ""
    THEN [code |-> StatusBadRequest, error |-> "validation_error", message |-> "Volume name is required", body |-> NoBody]
    ELSE IF backend = ""
    THEN [code |-> StatusBadRequest, error |-> "validation_error", message |-> "Backend is required", body |-> NoBody]
    ELSE IF Validate(params) # ""
    THEN [code |-> StatusBadRequest, error |-> "validation_error", message |-> Validate(params), body |-> NoBody]
    ELSE NoResp

\* the checks of HandleCreate before the record is built: the 400 response, or
\* NoResp when the request passes
CreateValidation(name, backend, params) ==
    IF name = ""
    THEN [code |-> StatusBadRequest, error |-> "validation_error", message |-> "Volume name is required", body |-> NoBody]
    ELSE IF backend = ""
    THEN [code |-> StatusBadRequest, error |-> "validation_error", message |-> "Backend is required", body |-> NoBody]
    ELSE IF GetBackend(backend).err # ""
    THEN [code |-> StatusBadRequest, error |-> "invalid_backend", message |-> "Backend not found", body |-> NoBody]
    ELSE IF Validate(params) # ""
    THEN [code |-> StatusBadRequest, error |-> "validation_error", message |-> Validate(params), body |-> NoBody]
    ELSE NoResp

\* a record built without the parameters of the request
NewVolumeNoParameters(id, name, backend, params, now) ==
    [ID |-> id, Name |-> name, Backend |-> backend, Parameters |-> EmptyParams,
     Status |-> VolumeStatusCreated, StagedOn |-> <<>>, PublishedOn |-> <<>>,
     CreatedAt |-> now, UpdatedAt |-> now]

\* the record HandleCreate builds
NewVolume(id, name, backend, params, now) ==
    [ID |-> id, Name |-> name, Backend |-> backend, Parameters |-> params,
     Status |-> VolumeStatusCreated, StagedOn |-> <<>>, PublishedOn |-> <<>>,
     CreatedAt |-> now, UpdatedAt |-> now]

\* the responses of the handlers
AlreadyExists(r) == Respond(r, StatusConflict, "already_exists", "Volume with this name already exists", NoBody)
NotFound(rq) == [rq EXCEPT !.pc = "done",
                   !.resp = [code |-> StatusNotFound, error |-> "not_found", message |-> "Volume not found", body |-> NoBody]]
VolumeInUse(r) == Respond(r, StatusConflict, "volume_in_use", "Volume is still published, unpublish first", NoBody)
DeleteFailed(r) == Respond(r, StatusInternalServerError, "internal_error", "Failed to delete volume", NoBody)
Deleted(r) == Respond(r, StatusOK, "", "Volume deleted successfully", NoBody)
\* c.JSON(http.StatusCreated, volume) and c.JSON(http.StatusOK, volume)
WithVolume(r, h) == Respond(r, IF reqs[r].op = "create" THEN StatusCreated ELSE StatusOK, "", "", Marshal(h[reqs[r].volume]))

\* POST /api/v1/volumes up to the call of store.CreateVolume
HandleCreate(r, name, backend, params) ==
    /\ Free(r)
    /\ LET in == [NewReq("create", NoID) EXCEPT !.name = name, !.backend = backend, !.params = params]
           bad == CreateValidation(name, backend, params)
       IN  IF bad # NoResp
           THEN /\ reqs' = [reqs EXCEPT ![r] = [in EXCEPT !.pc = "done", !.resp = bad]]
                /\ heap' = Collect(heap, reqs', memVolumes)
                /\ UNCHANGED <<nextID, clock>>
           ELSE /\ nextID < MaxIDs
                /\ nextID' = nextID + 1
                /\ clock' = clock + 1
                /\ reqs' = [reqs EXCEPT ![r] = [in EXCEPT !.pc = "CreateVolume", !.id = nextID', !.volume = VolPtr(nextID')]]
                /\ heap' = Collect([heap EXCEPT ![VolPtr(nextID')] = NewVolume(nextID', name, backend, params, clock')],
                                   reqs', memVolumes)
    /\ UNCHANGED <<impl, registry, procVars, rpc, storeVars, fs>>

\* MemoryStore.CreateVolume, under s.mu
MemCreateVolume(r) ==
    /\ impl = "memory"
    /\ reqs[r].pc = "CreateVolume"
    /\ LET p == reqs[r].volume
           v == heap[p]
       IN  IF v.ID \in DOMAIN memVolumes \/ v.Name \in DOMAIN memNames
           THEN /\ reqs' = [reqs EXCEPT ![r] = AlreadyExists(r)]
                /\ UNCHANGED <<memVolumes, memNames>>
           ELSE /\ memVolumes' = memVolumes @@ (v.ID :> p)
                /\ memNames' = memNames @@ (v.Name :> v.ID)
                /\ reqs' = [reqs EXCEPT ![r].pc = "respond"]
    /\ heap' = Collect(heap, reqs', memVolumes')
    /\ UNCHANGED <<impl, registry, procVars, rpc, kvVolumes, kvNames, fs, nextID, clock>>

\* EtcdStore.CreateVolume: the Get of the name key
EtcdCreateGet(r) ==
    /\ impl = "etcd"
    /\ reqs[r].pc = "CreateVolume"
    /\ IF reqs[r].name \in DOMAIN kvNames
       THEN reqs' = [reqs EXCEPT ![r] = AlreadyExists(r)]
       ELSE reqs' = [reqs EXCEPT ![r].pc = "CreateVolume_txn"]
    /\ heap' = Collect(heap, reqs', memVolumes)
    /\ UNCHANGED <<impl, registry, procVars, rpc, storeVars, fs, nextID, clock>>

\* a create transaction without its If(...)
TxnConditionNone(name) == TRUE

\* the condition of the create transaction: Version(nameKey) = 0
TxnCondition(name) == name \notin DOMAIN kvNames

\* EtcdStore.CreateVolume: the transaction If(Version(nameKey) = 0).Then(Put, Put),
\* and the response of HandleCreate
EtcdCreateTxn(r) ==
    /\ impl = "etcd"
    /\ reqs[r].pc = "CreateVolume_txn"
    /\ LET v == heap[reqs[r].volume]
       IN  IF TxnCondition(v.Name)
           THEN /\ kvVolumes' = [i \in DOMAIN kvVolumes \cup {v.ID} |-> IF i = v.ID THEN Marshal(v) ELSE kvVolumes[i]]
                /\ kvNames' = [n \in DOMAIN kvNames \cup {v.Name} |-> IF n = v.Name THEN v.ID ELSE kvNames[n]]
                /\ reqs' = [reqs EXCEPT ![r] = WithVolume(r, heap)]
           ELSE /\ reqs' = [reqs EXCEPT ![r] = AlreadyExists(r)]
                /\ UNCHANGED <<kvVolumes, kvNames>>
    /\ heap' = Collect(heap, reqs', memVolumes)
    /\ UNCHANGED <<impl, registry, procVars, rpc, memVolumes, memNames, fs, nextID, clock>>

\* the response that carries the volume, where the volume is shared
RespondVolume(r) ==
    /\ reqs[r].pc = "respond"
    /\ reqs' = [reqs EXCEPT ![r] = WithVolume(r, heap)]
    /\ heap' = Collect(heap, reqs', memVolumes)
    /\ UNCHANGED <<impl, registry, procVars, rpc, storeVars, fs, nextID, clock>>

\* --------------------------------------------------------------- HandleGet
\* GET /api/v1/volumes/:id
HandleGet(r, id) ==
    /\ Free(r)
    /\ LET in == NewReq("get", id)
       IN  IF ~GetFound(id)
           THEN reqs' = [reqs EXCEPT ![r] = NotFound(in)]
           ELSE IF impl = "memory"
           THEN reqs' = [reqs EXCEPT ![r] = [in EXCEPT !.pc = "respond", !.volume = GetPtr(r, id)]]
           ELSE reqs' = [reqs EXCEPT ![r] = [in EXCEPT !.pc = "done",
                             !.resp = [code |-> StatusOK, error |-> "", message |-> "", body |-> Marshal(GetHeap(r, id)[GetPtr(r, id)])]]]
    /\ heap' = Collect(heap, reqs', memVolumes)
    /\ UNCHANGED <<impl, registry, procVars, rpc, storeVars, fs, nextID, clock>>

\* ------------------------------------------------------------ HandleDelete
\* HandleDelete without the test of PublishedOn
StillPublishedSkipped(v) == FALSE

\* the test len(volume.PublishedOn) > 0 of HandleDelete
StillPublished(v) == Len(v.PublishedOn) > 0

\* DELETE /api/v1/volumes/:id: the GetVolume at its head and, on a private
\* copy, the check that follows
HandleDelete(r, id) ==
    /\ Free(r)
    /\ LET in == NewReq("delete", id)
       IN  IF ~GetFound(id)
           THEN reqs' = [reqs EXCEPT ![r] = NotFound(in)]
           ELSE IF impl = "memory"
           THEN reqs' = [reqs EXCEPT ![r] = [in EXCEPT !.pc = "delete_check", !.volume = GetPtr(r, id)]]
           ELSE IF StillPublished(GetHeap(r, id)[GetPtr(r, id)])
           THEN reqs' = [reqs EXCEPT ![r] = [in EXCEPT !.pc = "done",
                             !.resp = [code |-> StatusConflict, error |-> "volume_in_use",
                                       message |-> "Volume is still published, unpublish first", body |-> NoBody]]]
           ELSE reqs' = [reqs EXCEPT ![r] = [in EXCEPT !.pc = "DeleteVolume"]]
    /\ heap' = Collect(heap, reqs', memVolumes)
    /\ UNCHANGED <<impl, registry, procVars, rpc, storeVars, fs, nextID, clock>>

\* HandleDelete: the check that the volume is no longer published, on the
\* record the MemoryStore shares
DeleteCheck(r) ==
    /\ reqs[r].pc = "delete_check"
    /\ IF StillPublished(heap[reqs[r].volume])
       THEN reqs' = [reqs EXCEPT ![r] = VolumeInUse(r)]
       ELSE reqs' = [reqs EXCEPT ![r].pc = "DeleteVolume", ![r].volume = NilPtr]
    /\ heap' = Collect(heap, reqs', memVolumes)
    /\ UNCHANGED <<impl, registry, procVars, rpc, storeVars, fs, nextID, clock>>

\* MemoryStore.DeleteVolume, under s.mu, and the response of HandleDelete
MemDeleteVolume(r) ==
    /\ impl = "memory"
    /\ reqs[r].pc = "DeleteVolume"
    /\ LET id == reqs[r].id
       IN  IF id \notin DOMAIN memVolumes
           THEN /\ reqs' = [reqs EXCEPT ![r] = DeleteFailed(r)]
                /\ UNCHANGED <<memVolumes, memNames>>
           ELSE /\ memVolumes' = Without(memVolumes, id)
                /\ memNames' = Without(memNames, heap[memVolumes[id]].Name)
                /\ reqs' = [reqs EXCEPT ![r] = Deleted(r)]
    /\ heap' = Collect(heap, reqs', memVolumes')
    /\ UNCHANGED <<impl, registry, procVars, rpc, kvVolumes, kvNames, fs, nextID, clock>>

\* EtcdStore.DeleteVolume: the GetVolume that finds the name
EtcdDeleteGet(r) ==
    /\ impl = "etcd"
    /\ reqs[r].pc = "DeleteVolume"
    /\ IF reqs[r].id \notin DOMAIN kvVolumes
       THEN reqs' = [reqs EXCEPT ![r] = DeleteFailed(r)]
       ELSE reqs' = [reqs EXCEPT ![r].pc = "DeleteVolume_txn", ![r].name = Unmarshal(kvVolumes[reqs[r].id]).Name]
    /\ UNCHANGED <<impl, registry, procVars, rpc, storeVars, heap, fs, nextID, clock>>

\* EtcdStore.DeleteVolume: the unconditional transaction Then(Delete, Delete),
\* and the response of HandleDelete
EtcdDeleteTxn(r) ==
    /\ impl = "etcd"
    /\ reqs[r].pc = "DeleteVolume_txn"
    /\ kvVolumes' = Without(kvVolumes, reqs[r].id)
    /\ kvNames' = Without(kvNames, reqs[r].name)
    /\ reqs' = [reqs EXCEPT ![r] = Deleted(r)]
    /\ UNCHANGED <<impl, registry, procVars, rpc, memVolumes, memNames, heap, fs, nextID, clock>>

\* ------------------------------------------------- HandleStage, HandlePublish
\* a HandleStage that marks the record as staging before it calls the backend
HandleStageMarking(r, id, node, path) ==
    /\ Free(r)
    /\ LET in == [NewReq("stage", id) EXCEPT !.node = node, !.path = path]
       IN  IF ~GetFound(id)
           THEN /\ reqs' = [reqs EXCEPT ![r] = NotFound(in)]
                /\ heap' = Collect(heap, reqs', memVolumes)
                /\ UNCHANGED kvVolumes
           ELSE /\ reqs' = [reqs EXCEPT ![r] = [in EXCEPT !.pc = "stage_backend", !.volume = GetPtr(r, id)]]
                /\ heap' = Collect([GetHeap(r, id) EXCEPT ![GetPtr(r, id)].Status = VolumeStatusStaging], reqs', memVolumes)
                /\ kvVolumes' = IF impl = "etcd"
                                THEN [kvVolumes EXCEPT ![id] = Marshal(heap'[GetPtr(r, id)])]
                                ELSE kvVolumes
    /\ UNCHANGED <<impl, registry, procVars, rpc, memVolumes, memNames, kvNames, fs, nextID, clock>>

\* POST /api/v1/volumes/:id/stage: Bind and the GetVolume at its head
HandleStage(r, id, node, path) ==
    /\ Free(r)
    /\ LET in == [NewReq("stage", id) EXCEPT !.node = node, !.path = path]
       IN  IF ~GetFound(id)
           THEN /\ reqs' = [reqs EXCEPT ![r] = NotFound(in)]
                /\ heap' = Collect(heap, reqs', memVolumes)
           ELSE /\ reqs' = [reqs EXCEPT ![r] = [in EXCEPT !.pc = "stage_backend", !.volume = GetPtr(r, id)]]
                /\ heap' = Collect(GetHeap(r, id), reqs', memVolumes)
    /\ UNCHANGED <<impl, registry, procVars, rpc, storeVars, fs, nextID, clock>>

\* POST /api/v1/volumes/:id/publish: Bind and the GetVolume at its head
HandlePublish(r, id, node, path, readOnly) ==
    /\ Free(r)
    /\ LET in == [NewReq("publish", id) EXCEPT !.node = node, !.path = path]
       IN  IF ~GetFound(id)
           THEN /\ reqs' = [reqs EXCEPT ![r] = NotFound(in)]
                /\ heap' = Collect(heap, reqs', memVolumes)
           ELSE /\ reqs' = [reqs EXCEPT ![r] = [in EXCEPT !.pc = "publish_backend", !.volume = GetPtr(r, id)]]
                /\ heap' = Collect(GetHeap(r, id), reqs', memVolumes)
    /\ UNCHANGED <<impl, registry, procVars, rpc, storeVars, fs, nextID, clock>>

\* local.Backend.Stage: the directories it has made when it stops at `outcome`
\* ("ok", or the MkdirAll that failed)
StageEffect(v, stagingPath, outcome) ==
    CASE outcome = "source" -> {}
      [] outcome = "staging" -> {Lookup(v.Parameters, "path")}
      [] OTHER -> {Lookup(v.Parameters, "path"), stagingPath}

\* a Stage that does not report the failure to make the staging directory
StageErrorSwallowed(outcome) ==
    CASE outcome = "source" -> "failed to ensure source path"
      [] OTHER -> ""

\* local.Backend.Stage: its error, "" for success
StageError(outcome) ==
    CASE outcome = "source" -> "failed to ensure source path"
      [] outcome = "staging" -> "failed to ensure staging path"
      [] OTHER -> ""

\* local.Backend.Publish: the paths it has made when it stops at `outcome`
\* ("ok", the MkdirAll or the WriteFile that failed)
PublishEffect(v, targetPath, outcome) ==
    CASE outcome = "target" -> {}
      [] outcome = "marker" -> {targetPath}
      [] OTHER -> {targetPath, MarkerFile(targetPath)}

\* local.Backend.Publish: its error, "" for success
PublishError(outcome) ==
    CASE outcome = "target" -> "failed to ensure target path"
      [] outcome = "marker" -> "failed to bind mount"
      [] OTHER -> ""

\* an update of HandleStage that also drops the parameters of the record
StagedParametersDropped(v, node, now) ==
    [v EXCEPT !.Status = VolumeStatusStaged, !.StagedOn = Append(v.StagedOn, node), !.UpdatedAt = now,
              !.Parameters = EmptyParams]

\* the update of HandleStage on the record it holds
Staged(v, node, now) ==
    [v EXCEPT !.Status = VolumeStatusStaged, !.StagedOn = Append(v.StagedOn, node), !.UpdatedAt = now]

\* an update of HandlePublish that leaves the status as it was
PublishedStatusKept(v, node, now) ==
    [v EXCEPT !.PublishedOn = Append(v.PublishedOn, node), !.UpdatedAt = now]

\* the update of HandlePublish on the record it holds
Published(v, node, now) ==
    [v EXCEPT !.Status = VolumeStatusPublished, !.PublishedOn = Append(v.PublishedOn, node), !.UpdatedAt = now]

\* HandleStage: storage.GetBackend and backend.Stage and, on a private copy,
\* the update of the record that follows
BackendStage(r) ==
    /\ reqs[r].pc = "stage_backend"
    /\ LET p == reqs[r].volume
           v == heap[p]
       IN  IF GetBackend(v.Backend).err # ""
           THEN /\ reqs' = [reqs EXCEPT ![r] = Respond(r, StatusInternalServerError, "internal_error", "Failed to get backend", NoBody)]
                /\ heap' = Collect(heap, reqs', memVolumes)
                /\ UNCHANGED <<fs, clock>>
           ELSE \E outcome \in {"ok", "source", "staging"} :
                /\ fs' = fs \cup StageEffect(v, reqs[r].path, outcome)
                /\ IF StageError(outcome) # ""
                   THEN /\ reqs' = [reqs EXCEPT ![r] = [Respond(r, StatusInternalServerError, "stage_failed", StageError(outcome), NoBody)
                                                          EXCEPT !.calls = @ + 1]]
                        /\ heap' = Collect(heap, reqs', memVolumes)
                        /\ clock' = clock
                   ELSE IF impl = "memory"
                   THEN /\ reqs' = [reqs EXCEPT ![r].pc = "stage_status", ![r].calls = @ + 1]
                        /\ UNCHANGED <<heap, clock>>
                   ELSE /\ reqs' = [reqs EXCEPT ![r].pc = "UpdateVolume", ![r].calls = @ + 1]
                        /\ clock' = clock + 1
                        /\ heap' = [heap EXCEPT ![p] = Staged(v, reqs[r].node, clock')]
    /\ UNCHANGED <<impl, registry, procVars, rpc, storeVars, nextID>>

\* HandlePublish: storage.GetBackend and backend.Publish and, on a private copy,
\* the update of the record that follows
BackendPublish(r) ==
    /\ reqs[r].pc = "publish_backend"
    /\ LET p == reqs[r].volume
           v == heap[p]
       IN  IF GetBackend(v.Backend).err # ""
           THEN /\ reqs' = [reqs EXCEPT ![r] = Respond(r, StatusInternalServerError, "internal_error", "Failed to get backend", NoBody)]
                /\ heap' = Collect(heap, reqs', memVolumes)
                /\ UNCHANGED <<fs, clock>>
           ELSE \E outcome \in {"ok", "target", "marker"} :
                /\ fs' = fs \cup PublishEffect(v, reqs[r].path, outcome)
                /\ IF PublishError(outcome) # ""
                   THEN /\ reqs' = [reqs EXCEPT ![r] = [Respond(r, StatusInternalServerError, "publish_failed", PublishError(outcome), NoBody)
                                                          EXCEPT !.calls = @ + 1]]
                        /\ heap' = Collect(heap, reqs', memVolumes)
                        /\ clock' = clock
                   ELSE IF impl = "memory"
                   THEN /\ reqs' = [reqs EXCEPT ![r].pc = "publish_status", ![r].calls = @ + 1]
                        /\ UNCHANGED <<heap, clock>>
                   ELSE /\ reqs' = [reqs EXCEPT ![r].pc = "UpdateVolume", ![r].calls = @ + 1]
                        /\ clock' = clock + 1
                        /\ heap' = [heap EXCEPT ![p] = Published(v, reqs[r].node, clock')]
    /\ UNCHANGED <<impl, registry, procVars, rpc, storeVars, nextID>>

\* volume.Status = types.VolumeStatusStaged, on the shared record
StageSetStatus(r) ==
    /\ reqs[r].pc = "stage_status"
    /\ heap' = [heap EXCEPT ![reqs[r].volume].Status = VolumeStatusStaged]
    /\ reqs' = [reqs EXCEPT ![r].pc = "stage_read"]
    /\ UNCHANGED <<impl, registry, procVars, rpc, storeVars, fs, nextID, clock>>

\* the read of volume.StagedOn in append(volume.StagedOn, req.NodeID)
StageRead(r) ==
    /\ reqs[r].pc = "stage_read"
    /\ reqs' = [reqs EXCEPT ![r].pc = "stage_append", ![r].tmp = heap[reqs[r].volume].StagedOn]
    /\ UNCHANGED <<impl, registry, procVars, rpc, storeVars, heap, fs, nextID, clock>>

\* a HandleStage that writes back the StagedOn it read, without the node
StageAppendNothing(r) ==
    /\ reqs[r].pc = "stage_append"
    /\ heap' = [heap EXCEPT ![reqs[r].volume].StagedOn = reqs[r].tmp]
    /\ reqs' = [reqs EXCEPT ![r].pc = "stage_time", ![r].tmp = <<>>]
    /\ UNCHANGED <<impl, registry, procVars, rpc, storeVars, fs, nextID, clock>>

\* volume.StagedOn = append(..., req.NodeID)
StageAppend(r) ==
    /\ reqs[r].pc = "stage_append"
    /\ heap' = [heap EXCEPT ![reqs[r].volume].StagedOn = Append(reqs[r].tmp, reqs[r].node)]
    /\ reqs' = [reqs EXCEPT ![r].pc = "stage_time", ![r].tmp = <<>>]
    /\ UNCHANGED <<impl, registry, procVars, rpc, storeVars, fs, nextID, clock>>

\* volume.UpdatedAt = time.Now()
StageSetTime(r) ==
    /\ reqs[r].pc = "stage_time"
    /\ clock' = clock + 1
    /\ heap' = [heap EXCEPT ![reqs[r].volume].UpdatedAt = clock']
    /\ reqs' = [reqs EXCEPT ![r].pc = "UpdateVolume"]
    /\ UNCHANGED <<impl, registry, procVars, rpc, storeVars, fs, nextID>>

\* volume.Status = types.VolumeStatusPublished, on the shared record
PublishSetStatus(r) ==
    /\ reqs[r].pc = "publish_status"
    /\ heap' = [heap EXCEPT ![reqs[r].volume].Status = VolumeStatusPublished]
    /\ reqs' = [reqs EXCEPT ![r].pc = "publish_read"]
    /\ UNCHANGED <<impl, registry, procVars, rpc, storeVars, fs, nextID, clock>>

\* the read of volume.PublishedOn in append(volume.PublishedOn, req.NodeID)
PublishRead(r) ==
    /\ reqs[r].pc = "publish_read"
    /\ reqs' = [reqs EXCEPT ![r].pc = "publish_append", ![r].tmp = heap[reqs[r].volume].PublishedOn]
    /\ UNCHANGED <<impl, registry, procVars, rpc, storeVars, heap, fs, nextID, clock>>

\* volume.PublishedOn = append(..., req.NodeID)
PublishAppend(r) ==
    /\ reqs[r].pc = "publish_append"
    /\ heap' = [heap EXCEPT ![reqs[r].volume].PublishedOn = Append(reqs[r].tmp, reqs[r].node)]
    /\ reqs' = [reqs EXCEPT ![r].pc = "publish_time", ![r].tmp = <<>>]
    /\ UNCHANGED <<impl, registry, procVars, rpc, storeVars, fs, nextID, clock>>

\* volume.UpdatedAt = time.Now()
PublishSetTime(r) ==
    /\ reqs[r].pc = "publish_time"
    /\ clock' = clock + 1
    /\ heap' = [heap EXCEPT ![reqs[r].volume].UpdatedAt = clock']
    /\ reqs' = [reqs EXCEPT ![r].pc = "UpdateVolume"]
    /\ UNCHANGED <<impl, registry, procVars, rpc, storeVars, fs, nextID>>

\* MemoryStore.UpdateVolume, under s.mu; the handlers only log its error
MemUpdateVolume(r) ==
    /\ impl = "memory"
    /\ reqs[r].pc = "UpdateVolume"
    /\ IF reqs[r].id \notin DOMAIN memVolumes
       THEN memVolumes' = memVolumes
       ELSE memVolumes' = [memVolumes EXCEPT ![reqs[r].id] = reqs[r].volume]
    /\ reqs' = [reqs EXCEPT ![r].pc = "respond"]
    /\ UNCHANGED <<impl, registry, procVars, rpc, memNames, kvVolumes, kvNames, heap, fs, nextID, clock>>

\* EtcdStore.UpdateVolume: the Get that checks the key; the handlers only log
\* its error and respond
EtcdUpdateGet(r) ==
    /\ impl = "etcd"
    /\ reqs[r].pc = "UpdateVolume"
    /\ IF reqs[r].id \notin DOMAIN kvVolumes
       THEN reqs' = [reqs EXCEPT ![r] = WithVolume(r, heap)]
       ELSE reqs' = [reqs EXCEPT ![r].pc = "UpdateVolume_put"]
    /\ heap' = Collect(heap, reqs', memVolumes)
    /\ UNCHANGED <<impl, registry, procVars, rpc, storeVars, fs, nextID, clock>>

\* EtcdStore.UpdateVolume: the unconditional Put, and the response of the handler
EtcdUpdatePut(r) ==
    /\ impl = "etcd"
    /\ reqs[r].pc = "UpdateVolume_put"
    /\ LET id == reqs[r].id
       IN  kvVolumes' = [i \in DOMAIN kvVolumes \cup {id} |-> IF i = id THEN Marshal(heap[reqs[r].volume]) ELSE kvVolumes[i]]
    /\ reqs' = [reqs EXCEPT ![r] = WithVolume(r, heap)]
    /\ heap' = Collect(heap, reqs', memVolumes)
    /\ UNCHANGED <<impl, registry, procVars, rpc, memVolumes, memNames, kvNames, fs, nextID, clock>>

\* ------------------------------------------------------------------ routing
\* the volume routes Server.setupRoutes registers
Routes ==
    {<<"POST", "/volumes">>, <<"GET", "/volumes">>, <<"GET", "/volumes/:id">>,
     <<"DELETE", "/volumes/:id">>, <<"POST", "/volumes/:id/stage">>,
     <<"POST", "/volumes/:id/publish">>}

\* the requests VolumeManagerClient.UnstageVolume and UnpublishVolume send
TeardownRoute(op) ==
    IF op = "unstage" THEN <<"DELETE", "/volumes/:id/stage">> ELSE <<"DELETE", "/volumes/:id/publish">>

\* DELETE /api/v1/volumes/:id/stage and /publish: no handler is registered for
\* the method, so the router answers and no handler runs; whether it answers
\* 405 or 404 depends on the version of the router
ServeTeardown(r, op, id, path) ==
    /\ Free(r)
    /\ TeardownRoute(op) \notin Routes
    /\ \E code \in {StatusMethodNotAllowed, StatusNotFound} :
          reqs' = [reqs EXCEPT ![r] = [NewReq(op, id) EXCEPT !.pc = "done", !.path = path,
                      !.resp = [code |-> code, error |-> "",
                                message |-> IF code = StatusNotFound THEN "Not Found" ELSE "Method Not Allowed",
                                body |-> NoBody]]]
    /\ heap' = Collect(heap, reqs', memVolumes)
    /\ UNCHANGED <<impl, registry, procVars, rpc, storeVars, fs, nextID, clock>>

\* ------------------------------------------------------------ specification
\* the response has been written: the goroutine of the request ends
Forget(r) ==
    /\ reqs[r].pc = "done"
    /\ reqs' = [reqs EXCEPT ![r] = IdleReq]
    /\ UNCHANGED <<impl, registry, procVars, rpc, storeVars, heap, fs, nextID, clock>>

\* no response is being written
NoneDone == \A q \in Slots : reqs[q].pc # "done"
\* no request is in flight
Quiet == \A q \in Slots : Free(q)

\* the identifiers a client can ask for: those HandleCreate has handed out
\* (ListVolumes shows an ID as soon as its record is stored)
Known == 1..nextID

\* the create requests that pass validation, and those that do not
ValidCreates == {in \in CreateInputs : CreateValidation(in[1], in[2], in[3]) = NoResp}
InvalidInputs == {in \in CreateInputs : CreateValidation(in[1], in[2], in[3]) # NoResp}

\* the valid create requests the general specification tries next: names are
\* interchangeable, so the first volume of a run is named "a"
ValidInputs == {in \in ValidCreates : in[1] = "b" => nextID > 0}

\* the scheduling of the general specification: a response is written before
\* anything else happens, a request takes the first free slot, and no request
\* that will read the clock is admitted once `budget` readings are spent
MayArrive(r) == NoneDone /\ FirstFree(r, Reqs)
MayRead(budget) == clock + PendingClock < budget

\* requests served concurrently, two at a time.  A request that is answered
\* without a look at the catalog (a create that fails validation, a teardown
\* the router rejects) is independent of the requests in flight and arrives
\* between them.
Serve(budget) ==
    \E r \in Reqs :
        \/ \E in \in ValidInputs : MayArrive(r) /\ MayRead(budget) /\ HandleCreate(r, in[1], in[2], in[3])
        \/ \E in \in InvalidInputs : MayArrive(r) /\ Quiet /\ HandleCreate(r, in[1], in[2], in[3])
        \/ \E id \in Known : MayArrive(r) /\ HandleGet(r, id)
        \/ \E id \in Known : MayArrive(r) /\ HandleDelete(r, id)
        \/ \E id \in Known, node \in Nodes : MayArrive(r) /\ MayRead(budget) /\ HandleStage(r, id, node, StagePath)
        \/ \E id \in Known, node \in Nodes, readOnly \in BOOLEAN :
              MayArrive(r) /\ MayRead(budget) /\ HandlePublish(r, id, node, TargetPath, readOnly)
        \/ \E id \in Known : MayArrive(r) /\ Quiet /\ ServeTeardown(r, "unstage", id, StagePath)
        \/ \E id \in Known : MayArrive(r) /\ Quiet /\ ServeTeardown(r, "unpublish", id, TargetPath)
        \/ NoneDone /\ MemCreateVolume(r)
        \/ NoneDone /\ EtcdCreateGet(r)
        \/ NoneDone /\ EtcdCreateTxn(r)
        \/ NoneDone /\ DeleteCheck(r)
        \/ NoneDone /\ MemDeleteVolume(r)
        \/ NoneDone /\ EtcdDeleteGet(r)
        \/ NoneDone /\ EtcdDeleteTxn(r)
        \/ NoneDone /\ BackendStage(r)
        \/ NoneDone /\ StageSetStatus(r)
        \/ NoneDone /\ StageRead(r)
        \/ NoneDone /\ StageAppend(r)
        \/ NoneDone /\ StageSetTime(r)
        \/ NoneDone /\ BackendPublish(r)
        \/ NoneDone /\ PublishSetStatus(r)
        \/ NoneDone /\ PublishRead(r)
        \/ NoneDone /\ PublishAppend(r)
        \/ NoneDone /\ PublishSetTime(r)
        \/ NoneDone /\ MemUpdateVolume(r)
        \/ NoneDone /\ EtcdUpdateGet(r)
        \/ NoneDone /\ EtcdUpdatePut(r)
        \/ NoneDone /\ RespondVolume(r)
        \/ Forget(r)

Next == Serve(MaxClock)

Spec == Init /\ [][Next]_vars

\* the same server over runs one reading of the clock longer: long enough for
\* a name to be created again after a delete has raced with another request
NextLong == Serve(MaxClock + 1)

SpecLong == Init /\ [][NextLong]_vars

\* ------------------------------------------------------ concurrent creation
\* slot r has served no request yet
Unused(r) == reqs[r].pc = "idle"

\* the next unused slot among rs
NextUnused(r, rs) == r \in rs /\ Unused(r) /\ \A q \in rs : q < r => ~Unused(q)

\* MaxCreators create requests that pass validation, served concurrently; the
\* responses stay in their slots
NextCreate ==
    \E r \in Slots :
        \/ \E in \in ValidCreates : NextUnused(r, Slots) /\ HandleCreate(r, in[1], in[2], in[3])
        \/ MemCreateVolume(r)
        \/ EtcdCreateGet(r)
        \/ EtcdCreateTxn(r)
        \/ RespondVolume(r)

SpecCreate == Init /\ [][NextCreate]_vars

\* ------------------------------------------------- one caller, one lifecycle
\* the slot of the single caller
Callers == {1}

\* the last request of caller c was `op`, and it succeeded / failed
LastOK(c, op) == reqs[c].op = op /\ reqs[c].pc = "done" /\ reqs[c].resp.code \in {StatusOK, StatusCreated}
LastFailed(c, op) == reqs[c].op = op /\ reqs[c].pc = "done" /\ reqs[c].resp.code \notin {StatusOK, StatusCreated}

\* one caller sends create, then stage for a node, then publish for the same
\* node, each after the response to the one before, and repeats a stage or
\* publish that failed
NextLifecycle ==
    \E c \in Callers :
        \/ \E in \in ValidCreates : Unused(c) /\ HandleCreate(c, in[1], in[2], in[3])
        \/ \E node \in Nodes :
              (LastOK(c, "create") \/ LastFailed(c, "stage")) /\ HandleStage(c, reqs[c].id, node, StagePath)
        \/ \E readOnly \in BOOLEAN :
              /\ LastOK(c, "stage") \/ LastFailed(c, "publish")
              /\ HandlePublish(c, reqs[c].id, reqs[c].node, TargetPath, readOnly)
        \/ MemCreateVolume(c)
        \/ EtcdCreateGet(c)
        \/ EtcdCreateTxn(c)
        \/ BackendStage(c)
        \/ StageSetStatus(c)
        \/ StageRead(c)
        \/ StageAppend(c)
        \/ StageSetTime(c)
        \/ BackendPublish(c)
        \/ PublishSetStatus(c)
        \/ PublishRead(c)
        \/ PublishAppend(c)
        \/ PublishSetTime(c)
        \/ MemUpdateVolume(c)
        \/ EtcdUpdateGet(c)
        \/ EtcdUpdatePut(c)
        \/ RespondVolume(c)

SpecLifecycle == Init /\ [][NextLifecycle]_vars

\* ------------------------------------------------------ create, then get
\* the slots of the create requests and of the get requests
Writers == {1, 2}
Readers == {3}

\* slot c holds the 201 response to a create
CreatedIn(c) == reqs[c].op = "create" /\ reqs[c].pc = "done" /\ reqs[c].resp.code = StatusCreated

\* two create requests, and get requests for the ID a create has returned
NextRoundTrip ==
    \/ \E r \in Writers, in \in ValidCreates : NextUnused(r, Writers) /\ HandleCreate(r, in[1], in[2], in[3])
    \/ \E g \in Readers, c \in Writers : CreatedIn(c) /\ HandleGet(g, reqs[c].resp.body.id)
    \/ \E r \in Writers : MemCreateVolume(r)
    \/ \E r \in Writers : EtcdCreateGet(r)
    \/ \E r \in Writers : EtcdCreateTxn(r)
    \/ \E r \in Writers \cup Readers : RespondVolume(r)

SpecRoundTrip == Init /\ [][NextRoundTrip]_vars

\* --------------------------------------------- two nodes attach one volume
\* the slot of the create request, and the slots and nodes of the two
\* requests that attach the volume
Owners == {3}
Attachers == {1, 2}
NodeOf(r) == IF r = 1 THEN "n1" ELSE "n2"

\* a volume is created; then each of two nodes sends one stage or publish
\* request for it, served concurrently; the responses stay in their slots
NextTwoNodes ==
    \/ \E o \in Owners, in \in ValidCreates : Unused(o) /\ HandleCreate(o, in[1], in[2], in[3])
    \/ \E o \in Owners : MemCreateVolume(o)
    \/ \E o \in Owners : EtcdCreateGet(o)
    \/ \E o \in Owners : EtcdCreateTxn(o)
    \/ \E o \in Owners, r \in Attachers :
          CreatedIn(o) /\ Unused(r) /\ HandleStage(r, reqs[o].resp.body.id, NodeOf(r), StagePath)
    \/ \E o \in Owners, r \in Attachers, readOnly \in BOOLEAN :
          CreatedIn(o) /\ Unused(r) /\ HandlePublish(r, reqs[o].resp.body.id, NodeOf(r), TargetPath, readOnly)
    \/ \E r \in Attachers : BackendStage(r)
    \/ \E r \in Attachers : StageSetStatus(r)
    \/ \E r \in Attachers : StageRead(r)
    \/ \E r \in Attachers : StageAppend(r)
    \/ \E r \in Attachers : StageSetTime(r)
    \/ \E r \in Attachers : BackendPublish(r)
    \/ \E r \in Attachers : PublishSetStatus(r)
    \/ \E r \in Attachers : PublishRead(r)
    \/ \E r \in Attachers : PublishAppend(r)
    \/ \E r \in Attachers : PublishSetTime(r)
    \/ \E r \in Attachers : MemUpdateVolume(r)
    \/ \E r \in Attachers : EtcdUpdateGet(r)
    \/ \E r \in Attachers : EtcdUpdatePut(r)
    \/ \E r \in Owners \cup Attachers : RespondVolume(r)

SpecTwoNodes == Init /\ [][NextTwoNodes]_vars

\* ------------------------------------- two nodes attach, the owner deletes
\* the owner's volume exists or has existed
HasCreated(o) == CreatedIn(o) \/ reqs[o].op = "delete"

\* the owner's delete was refused because the volume is published
DeleteRefused(o) == reqs[o].op = "delete" /\ reqs[o].pc = "done" /\ reqs[o].resp.code = StatusConflict

\* a volume is created; each of two nodes sends one stage or publish request
\* for it, and its owner deletes it (again, when the delete was refused), all
\* served concurrently; the responses of the nodes' requests stay in their slots
NextAttach ==
    \/ \E o \in Owners, in \in ValidCreates : Unused(o) /\ HandleCreate(o, in[1], in[2], in[3])
    \/ \E o \in Owners : MemCreateVolume(o)
    \/ \E o \in Owners : EtcdCreateGet(o)
    \/ \E o \in Owners : EtcdCreateTxn(o)
    \/ \E o \in Owners : (CreatedIn(o) \/ DeleteRefused(o)) /\ HandleDelete(o, reqs[o].id)
    \/ \E o \in Owners : DeleteCheck(o)
    \/ \E o \in Owners : MemDeleteVolume(o)
    \/ \E o \in Owners : EtcdDeleteGet(o)
    \/ \E o \in Owners : EtcdDeleteTxn(o)
    \/ \E o \in Owners, r \in Attachers :
          HasCreated(o) /\ Unused(r) /\ HandleStage(r, reqs[o].id, NodeOf(r), StagePath)
    \/ \E o \in Owners, r \in Attachers, readOnly \in BOOLEAN :
          HasCreated(o) /\ Unused(r) /\ HandlePublish(r, reqs[o].id, NodeOf(r), TargetPath, readOnly)
    \/ \E r \in Attachers : BackendStage(r)
    \/ \E r \in Attachers : StageSetStatus(r)
    \/ \E r \in Attachers : StageRead(r)
    \/ \E r \in Attachers : StageAppend(r)
    \/ \E r \in Attachers : StageSetTime(r)
    \/ \E r \in Attachers : BackendPublish(r)
    \/ \E r \in Attachers : PublishSetStatus(r)
    \/ \E r \in Attachers : PublishRead(r)
    \/ \E r \in Attachers : PublishAppend(r)
    \/ \E r \in Attachers : PublishSetTime(r)
    \/ \E r \in Attachers : MemUpdateVolume(r)
    \/ \E r \in Attachers : EtcdUpdateGet(r)
    \/ \E r \in Attachers : EtcdUpdatePut(r)
    \/ \E r \in Owners \cup Attachers : RespondVolume(r)

SpecAttach == Init /\ [][NextAttach]_vars

\* --------------------------------------------- the store called on its own
\* the IDs the callers of the store put in their records
StoreIDs == {1, 2}

\* a caller of Store.CreateVolume: it builds a record with the ID and the name
\* of its choice and calls the store
StoreCreateVolume(r, id, name) ==
    /\ Unused(r)
    /\ reqs' = [reqs EXCEPT ![r] = [NewReq("create", id) EXCEPT !.name = name, !.backend = "local",
                                        !.params = PathParams(AbsPath), !.pc = "CreateVolume",
                                        !.volume = ReqPtr(r)]]
    /\ heap' = Collect([heap EXCEPT ![ReqPtr(r)] = NewVolume(id, name, "local", PathParams(AbsPath), clock)],
                       reqs', memVolumes)
    /\ UNCHANGED <<impl, registry, procVars, rpc, storeVars, fs, nextID, clock>>

\* MaxCreators calls of Store.CreateVolume, with any IDs and names, running
\* concurrently; their results stay in their slots
NextStoreCreate ==
    \/ \E r \in Slots, id \in StoreIDs, in \in ValidCreates : StoreCreateVolume(r, id, in[1])
    \/ \E r \in Slots : MemCreateVolume(r)
    \/ \E r \in Slots : EtcdCreateGet(r)
    \/ \E r \in Slots : EtcdCreateTxn(r)
    \/ \E r \in Slots : RespondVolume(r)

SpecStoreCreate == Init /\ [][NextStoreCreate]_vars

\* ------------------------------------------------------ the protocol bridge
StatusNoContent == 204

\* VolumeManagerClient.DeleteVolume: the error it makes of the response to its
\* DELETE request, "" for nil
ClientDeleteVolume(resp) ==
    IF resp.code = StatusNotFound THEN "volume not found"
    ELSE IF resp.code # StatusOK /\ resp.code # StatusNoContent THEN "unexpected status"
    ELSE ""

\* a ControllerServer.DeleteVolume that passes every error of the client on
ControllerDeleteVolumeStrict(volumeID, err) ==
    IF volumeID = NoID THEN "InvalidArgument"
    ELSE IF err # "" THEN "Internal"
    ELSE "OK"

\* ControllerServer.DeleteVolume: the gRPC code it returns for the error of the
\* client
ControllerDeleteVolume(volumeID, err) ==
    IF volumeID = NoID THEN "InvalidArgument"
    ELSE IF err # "" THEN (IF err = "volume not found" THEN "OK" ELSE "Internal")
    ELSE "OK"

\* the slots of the first and of the second DeleteVolume call of the bridge
FirstCalls == {1}
SecondCalls == {2}

\* the bridge waits for the response of a request before it sends the next
AtRest == \A q \in Slots : reqs[q].pc \in {"idle", "done"}

\* the bridge has sent no delete request yet
NoDeleteYet == \A r \in FirstCalls : Unused(r)

\* one bridge, whose calls follow one another: it may create a volume and
\* stage it on its node, and then calls DeleteVolume twice for one ID, that of
\* the volume or one that was never created; the responses to the delete
\* requests stay in their slots
NextBridge ==
    \/ \E o \in Owners, in \in ValidCreates :
          AtRest /\ Unused(o) /\ NoDeleteYet /\ HandleCreate(o, in[1], in[2], in[3])
    \/ \E o \in Owners : MemCreateVolume(o)
    \/ \E o \in Owners : EtcdCreateGet(o)
    \/ \E o \in Owners : EtcdCreateTxn(o)
    \/ \E o \in Owners : AtRest /\ CreatedIn(o) /\ NoDeleteYet /\ HandleStage(o, reqs[o].id, NodeOf(o), StagePath)
    \/ \E o \in Owners : BackendStage(o)
    \/ \E o \in Owners : StageSetStatus(o)
    \/ \E o \in Owners : StageRead(o)
    \/ \E o \in Owners : StageAppend(o)
    \/ \E o \in Owners : StageSetTime(o)
    \/ \E o \in Owners : MemUpdateVolume(o)
    \/ \E o \in Owners : EtcdUpdateGet(o)
    \/ \E o \in Owners : EtcdUpdatePut(o)
    \/ \E o \in Owners : RespondVolume(o)
    \/ \E r \in FirstCalls, id \in StoreIDs : AtRest /\ Unused(r) /\ HandleDelete(r, id)
    \/ \E r \in SecondCalls, f \in FirstCalls :
          AtRest /\ Unused(r) /\ reqs[f].pc = "done" /\ HandleDelete(r, reqs[f].id)
    \/ \E r \in FirstCalls \cup SecondCalls : DeleteCheck(r)
    \/ \E r \in FirstCalls \cup SecondCalls : MemDeleteVolume(r)
    \/ \E r \in FirstCalls \cup SecondCalls : EtcdDeleteGet(r)
    \/ \E r \in FirstCalls \cup SecondCalls : EtcdDeleteTxn(r)

SpecBridge == Init /\ [][NextBridge]_vars

\* ------------------------------------------------------- the CSI driver
\* what the methods of VolumeManagerClient make of the status of the response:
\* their error, "" for nil
ClientCreateVolume(status) == IF status # StatusCreated THEN "unexpected status" ELSE ""
ClientGetVolume(status) ==
    IF status = StatusNotFound THEN "volume not found"
    ELSE IF status # StatusOK THEN "unexpected status"
    ELSE ""
ClientStageVolume(status) == IF status # StatusOK THEN "unexpected status" ELSE ""
ClientUnstageVolume(status) == IF status # StatusOK THEN "unexpected status" ELSE ""
ClientPublishVolume(status) == IF status # StatusOK THEN "unexpected status" ELSE ""
ClientUnpublishVolume(status) == IF status # StatusOK THEN "unexpected status" ELSE ""

\* the error of the client method the RPC method calls
ClientError(method, status) ==
    CASE method = "CreateVolume" -> ClientCreateVolume(status)
      [] method = "DeleteVolume" -> ClientDeleteVolume([code |-> status])
      [] method = "ValidateVolumeCapabilities" -> ClientGetVolume(status)
      [] method = "NodeStageVolume" -> ClientStageVolume(status)
      [] method = "NodeUnstageVolume" -> ClientUnstageVolume(status)
      [] method = "NodePublishVolume" -> ClientPublishVolume(status)
      [] OTHER -> ClientUnpublishVolume(status)

\* the gRPC code the RPC method returns for the error of its client call
RpcCode(method, volumeID, err) ==
    CASE method = "DeleteVolume" -> ControllerDeleteVolume(volumeID, err)
      [] method = "ValidateVolumeCapabilities" -> IF err # "" THEN "NotFound" ELSE "OK"
      [] OTHER -> IF err # "" THEN "Internal" ELSE "OK"

\* the RPC methods that take a volume ID
IDMethods == {"DeleteVolume", "ValidateVolumeCapabilities", "NodeStageVolume", "NodeUnstageVolume",
              "NodePublishVolume", "NodeUnpublishVolume"}

\* the path a node method is called with
RpcPath(method) == IF method \in {"NodeStageVolume", "NodeUnstageVolume"} THEN StagePath ELSE TargetPath

\* ControllerServer.CreateVolume: the backend it sends, "local" by default
RpcBackend(params) == IF HasKey(params, "backend") /\ Lookup(params, "backend") # "" THEN Lookup(params, "backend") ELSE "local"

\* the parameters CreateVolume is called with: accepted, refused by
\* Validate, and naming a backend that is not registered
RpcParams == {PathParams(AbsPath), PathParams(RelPath), PathParams(AbsPath) \cup {<<"backend", "zip">>}}

\* the --node-id of the driver
nodeID == "n1"

\* a call that ends in the driver
RpcReturn(call, code) == [call EXCEPT !.pc = "done", !.code = code]

\* ControllerServer.CreateVolume up to its client call
RpcCreateVolume(name, params) ==
    /\ rpc.pc \in {"idle", "done"}
    /\ LET call == [IdleRpc EXCEPT !.method = "CreateVolume", !.name = name, !.params = params, !.dirs = rpc.dirs]
       IN  rpc' = IF name = "" THEN RpcReturn(call, "InvalidArgument") ELSE [call EXCEPT !.pc = "send"]
    /\ UNCHANGED <<impl, registry, procVars, storeVars, heap, fs, nextID, clock, reqs>>

\* the methods that take a volume ID, up to their client call or their MkdirAll
RpcWithID(method, volumeID, readOnly) ==
    /\ rpc.pc \in {"idle", "done"}
    /\ LET call == [IdleRpc EXCEPT !.method = method, !.id = volumeID, !.readOnly = readOnly, !.dirs = rpc.dirs]
       IN  rpc' = IF volumeID = NoID THEN RpcReturn(call, "InvalidArgument")
                  ELSE IF method \in {"NodeStageVolume", "NodePublishVolume"} THEN [call EXCEPT !.pc = "mkdir"]
                  ELSE [call EXCEPT !.pc = "send"]
    /\ UNCHANGED <<impl, registry, procVars, storeVars, heap, fs, nextID, clock, reqs>>

\* NodeStageVolume, NodePublishVolume: os.MkdirAll of the path on the node
RpcMkdirAll ==
    /\ rpc.pc = "mkdir"
    /\ \/ rpc' = [rpc EXCEPT !.pc = "send", !.dirs = @ \cup {RpcPath(rpc.method)}]
       \/ rpc' = RpcReturn(rpc, "Internal")
    /\ UNCHANGED <<impl, registry, procVars, storeVars, heap, fs, nextID, clock, reqs>>

\* the connection of the driver's http.Client
Conns == {1}

\* the request of the driver has not been sent yet
Unsent(r, method) == rpc.pc = "send" /\ rpc.method = method /\ Unused(r)

\* the response has arrived: the client method returns, and the RPC method
\* returns its gRPC code (and CreateVolume the ID of the decoded record)
RpcReceive(r) ==
    /\ rpc.pc = "send"
    /\ reqs[r].pc = "done"
    /\ LET status == reqs[r].resp.code
           err == ClientError(rpc.method, status)
       IN  rpc' = [RpcReturn(rpc, RpcCode(rpc.method, rpc.id, err)) EXCEPT
                      !.status = status,
                      !.vol = IF rpc.method = "CreateVolume" /\ err = "" THEN Unmarshal(reqs[r].resp.body).ID ELSE NoID]
    /\ reqs' = [reqs EXCEPT ![r] = IdleReq]
    /\ UNCHANGED <<impl, registry, procVars, storeVars, heap, fs, nextID, clock>>

\* one driver (controller and node service) serving one call at a time
\* against the volume manager
NextDriver ==
    \/ \E name \in {"a", ""}, params \in RpcParams : MayRead(MaxClock) /\ RpcCreateVolume(name, params)
    \/ \E method \in IDMethods, id \in StoreIDs \cup {NoID}, readOnly \in BOOLEAN :
          /\ MayRead(MaxClock)
          /\ readOnly => method = "NodePublishVolume"
          /\ RpcWithID(method, id, readOnly)
    \/ RpcMkdirAll
    \/ \E r \in Conns : Unsent(r, "CreateVolume") /\ HandleCreate(r, rpc.name, RpcBackend(rpc.params), rpc.params)
    \/ \E r \in Conns : Unsent(r, "DeleteVolume") /\ HandleDelete(r, rpc.id)
    \/ \E r \in Conns : Unsent(r, "ValidateVolumeCapabilities") /\ HandleGet(r, rpc.id)
    \/ \E r \in Conns : Unsent(r, "NodeStageVolume") /\ HandleStage(r, rpc.id, nodeID, StagePath)
    \/ \E r \in Conns : Unsent(r, "NodePublishVolume") /\ HandlePublish(r, rpc.id, "", TargetPath, rpc.readOnly)
    \/ \E r \in Conns : Unsent(r, "NodeUnstageVolume") /\ ServeTeardown(r, "unstage", rpc.id, StagePath)
    \/ \E r \in Conns : Unsent(r, "NodeUnpublishVolume") /\ ServeTeardown(r, "unpublish", rpc.id, TargetPath)
    \/ \E r \in Conns : MemCreateVolume(r)
    \/ \E r \in Conns : EtcdCreateGet(r)
    \/ \E r \in Conns : EtcdCreateTxn(r)
    \/ \E r \in Conns : RespondVolume(r)
    \/ \E r \in Conns : DeleteCheck(r)
    \/ \E r \in Conns : MemDeleteVolume(r)
    \/ \E r \in Conns : EtcdDeleteGet(r)
    \/ \E r \in Conns : EtcdDeleteTxn(r)
    \/ \E r \in Conns : BackendStage(r)
    \/ \E r \in Conns : StageSetStatus(r)
    \/ \E r \in Conns : StageRead(r)
    \/ \E r \in Conns : StageAppend(r)
    \/ \E r \in Conns : StageSetTime(r)
    \/ \E r \in Conns : BackendPublish(r)
    \/ \E r \in Conns : PublishSetStatus(r)
    \/ \E r \in Conns : PublishRead(r)
    \/ \E r \in Conns : PublishAppend(r)
    \/ \E r \in Conns : PublishSetTime(r)
    \/ \E r \in Conns : MemUpdateVolume(r)
    \/ \E r \in Conns : EtcdUpdateGet(r)
    \/ \E r \in Conns : EtcdUpdatePut(r)
    \/ \E r \in Conns : RpcReceive(r)

SpecDriver == Init /\ [][NextDriver]_vars

\* ------------------------------------------- store calls, one at a time
\* MemoryStore.CreateVolume, GetVolume and DeleteVolume as functions of the
\* records and the name index they are called on: the error ("" for nil) and
\* what the call leaves
MemoryCreateVolume(recs, names, v) ==
    IF v.ID \in DOMAIN recs \/ v.Name \in DOMAIN names
    THEN [err |-> "ErrAlreadyExists", recs |-> recs, names |-> names]
    ELSE [err |-> "", recs |-> recs @@ (v.ID :> v), names |-> names @@ (v.Name :> v.ID)]

MemoryGetVolume(recs, id) ==
    IF id \notin DOMAIN recs THEN [err |-> "ErrNotFound", volume |-> ZeroVolume]
    ELSE [err |-> "", volume |-> recs[id]]

MemoryDeleteVolume(recs, names, id) ==
    IF id \notin DOMAIN recs
    THEN [err |-> "ErrNotFound", recs |-> recs, names |-> names]
    ELSE [err |-> "", recs |-> Without(recs, id), names |-> Without(names, recs[id].Name)]

\* MaxCreators calls of Store.CreateVolume, with any IDs and names, of
\* GetVolume (GET) and of GetVolume and DeleteVolume (DELETE), each issued
\* when the one before it has returned; the calls stay in their slots
NextStoreCalls ==
    \/ \E r \in Slots, id \in StoreIDs, in \in ValidCreates :
          AtRest /\ NextUnused(r, Slots) /\ StoreCreateVolume(r, id, in[1])
    \/ \E r \in Slots : MemCreateVolume(r)
    \/ \E r \in Slots : EtcdCreateGet(r)
    \/ \E r \in Slots : EtcdCreateTxn(r)
    \/ \E r \in Slots : RespondVolume(r)
    \/ \E r \in Slots, id \in StoreIDs : AtRest /\ NextUnused(r, Slots) /\ HandleGet(r, id)
    \/ \E r \in Slots, id \in StoreIDs : AtRest /\ NextUnused(r, Slots) /\ HandleDelete(r, id)
    \/ \E r \in Slots : DeleteCheck(r)
    \/ \E r \in Slots : MemDeleteVolume(r)
    \/ \E r \in Slots : EtcdDeleteGet(r)
    \/ \E r \in Slots : EtcdDeleteTxn(r)

SpecStoreCalls == Init /\ [][NextStoreCalls]_vars

\* ---------------------------------------------------- the backend registry
\* the names and factories RegisterBackend is called with: the local backend,
\* a second backend, and a factory that returns an error
BackendNames == {"local", "zip"}
NewZip == [backend |-> [Name |-> "zip", Capabilities |-> [Capabilities EXCEPT !.SupportsReadWrite = FALSE]], err |-> ""]
NewBroken == [backend |-> NoBackend, err |-> "failed to create backend"]
Factories == {NewBackend, NewZip, NewBroken}

\* a RegisterBackend that replaces the factory of a name already taken
RegisterBackendOverwrite(r, name, factory) ==
    /\ Unused(r)
    /\ registry' = [n \in DOMAIN registry \cup {name} |-> IF n = name THEN factory ELSE registry[n]]
    /\ reqs' = [reqs EXCEPT ![r] = [NewReq("RegisterBackend", NoID) EXCEPT !.pc = "done", !.name = name, !.tmp = <<factory>>]]
    /\ UNCHANGED <<impl, procVars, rpc, storeVars, heap, fs, nextID, clock>>

\* storage.RegisterBackend; the slot keeps the call and its error
RegisterBackend(r, name, factory) ==
    /\ Unused(r)
    /\ LET call == [NewReq("RegisterBackend", NoID) EXCEPT !.pc = "done", !.name = name, !.tmp = <<factory>>]
       IN  IF name \in DOMAIN registry
           THEN /\ reqs' = [reqs EXCEPT ![r] = [call EXCEPT !.resp.error = "ErrBackendAlreadyRegistered"]]
                /\ registry' = registry
           ELSE /\ reqs' = [reqs EXCEPT ![r] = call]
                /\ registry' = registry @@ (name :> factory)
    /\ UNCHANGED <<impl, procVars, rpc, storeVars, heap, fs, nextID, clock>>

\* the orders in which a range over the registry can visit its names
Orders(reg) == {o \in [1..Cardinality(DOMAIN reg) -> DOMAIN reg] : \A i, j \in DOMAIN o : o[i] = o[j] => i = j}

\* storage.ListBackends, visiting the names in `order`: one entry for each
\* name whose GetBackend succeeds
ListBackends(order) ==
    LET made == SelectSeq(order, LAMBDA n : GetBackend(n).err = "")
    IN  [i \in 1..Len(made) |->
            [name |-> GetBackend(made[i]).backend.Name,
             description |-> <<GetBackend(made[i]).backend.Name, " storage backend">>,
             capabilities |-> GetBackend(made[i]).backend.Capabilities]]

\* GET /api/v1/backends: BackendHandler.HandleList
HandleListBackends(r) ==
    /\ Unused(r)
    /\ \E order \in Orders(registry) :
          reqs' = [reqs EXCEPT ![r] = [NewReq("backends", NoID) EXCEPT !.pc = "done",
                      !.resp = [code |-> StatusOK, error |-> "", message |-> "",
                                body |-> [backends |-> ListBackends(order), count |-> Len(ListBackends(order))]]]]
    /\ UNCHANGED <<impl, registry, procVars, rpc, storeVars, heap, fs, nextID, clock>>

\* packages register backends, and the backends are listed, one call after
\* another; the calls stay in their slots
NextRegistry ==
    \/ \E r \in Slots, name \in BackendNames, factory \in Factories :
          NextUnused(r, Slots) /\ RegisterBackend(r, name, factory)
    \/ \E r \in Slots : NextUnused(r, Slots) /\ HandleListBackends(r)

SpecRegistry == Init /\ [][NextRegistry]_vars

\* ------------------------------------------------- main (volume-manager)
\* the ways the process ends: os.Exit(1) after NewEtcdStore returned one of
\* its three errors, os.Exit(1) in the goroutine of server.Start, os.Exit(1)
\* after server.Shutdown returned an error, and the return of main
StartupExits == {"exit: failed to start etcd", "exit: etcd took too long to start",
                 "exit: failed to create etcd client"}
Exits == StartupExits \cup {"exit: server error", "exit: shutdown error", "returned"}

\* the process when main begins: no store, no member, no server
InitMain ==
    /\ impl \in {"memory", "etcd"}
    /\ memVolumes = <<>>
    /\ memNames = <<>>
    /\ kvVolumes = <<>>
    /\ kvNames = <<>>
    /\ heap = [p \in Ptrs |-> ZeroVolume]
    /\ fs = {}
    /\ nextID = 0
    /\ clock = 0
    /\ reqs = [r \in Slots |-> IdleReq]
    /\ registry = ("local" :> NewBackend)
    /\ mainPC = "start"
    /\ member = "none"
    /\ server = "none"
    /\ rpc = IdleRpc

\* main: store.NewMemoryStore without etcd; with etcd NewEtcdStore, where
\* embed.StartEtcd starts the member or fails
NewStore ==
    /\ mainPC = "start"
    /\ \/ impl = "memory" /\ mainPC' = "store" /\ member' = member
       \/ impl = "etcd" /\ mainPC' = "select" /\ member' = "starting"
       \/ impl = "etcd" /\ mainPC' = "exit: failed to start etcd" /\ member' = member
    /\ UNCHANGED <<impl, registry, rpc, storeVars, heap, fs, nextID, clock, reqs, server>>

\* the embedded member: it becomes ready (ReadyNotify), and once told to stop
\* it terminates (StopNotify)
Member ==
    /\ mainPC \notin Exits
    /\ \/ member = "starting" /\ member' = "ready"
       \/ member = "stopping" /\ member' = "stopped"
    /\ UNCHANGED <<impl, registry, rpc, storeVars, heap, fs, nextID, clock, reqs, mainPC, server>>

\* a select that does not wait for ReadyNotify
EtcdReadyUnchecked ==
    /\ mainPC = "select"
    /\ mainPC' = "clientv3.New"
    /\ UNCHANGED <<impl, registry, rpc, storeVars, heap, fs, nextID, clock, reqs, member, server>>

\* NewEtcdStore: the select receives from e.Server.ReadyNotify()
EtcdReady ==
    /\ mainPC = "select" /\ member = "ready"
    /\ mainPC' = "clientv3.New"
    /\ UNCHANGED <<impl, registry, rpc, storeVars, heap, fs, nextID, clock, reqs, member, server>>

\* NewEtcdStore: the select receives from time.After(60 s); e.Server.Stop(),
\* the error, and os.Exit(1) in main
EtcdTimeout ==
    /\ mainPC = "select"
    /\ member' = "stopped"
    /\ mainPC' = "exit: etcd took too long to start"
    /\ UNCHANGED <<impl, registry, rpc, storeVars, heap, fs, nextID, clock, reqs, server>>

\* NewEtcdStore: clientv3.New, and the store returned to main; or e.Close(),
\* the error, and os.Exit(1) in main
NewClient ==
    /\ mainPC = "clientv3.New"
    /\ \/ mainPC' = "store" /\ member' = member
       \/ mainPC' = "exit: failed to create etcd client" /\ member' = "stopped"
    /\ UNCHANGED <<impl, registry, rpc, storeVars, heap, fs, nextID, clock, reqs, server>>

\* main: defer metaStore.Close(), api.NewServer, go server.Start(), and the
\* wait for a signal
StartServer ==
    /\ mainPC = "store"
    /\ mainPC' = "quit"
    /\ server' = "starting"
    /\ UNCHANGED <<impl, registry, rpc, storeVars, heap, fs, nextID, clock, reqs, member>>

\* the goroutine of server.Start: the listener is bound; or Start returns an
\* error, that of the bind or ErrServerClosed once Shutdown was called, and
\* the goroutine calls os.Exit(1)
ServerStart ==
    /\ mainPC \notin Exits
    /\ \/ server = "starting" /\ server' = "listening" /\ mainPC' = mainPC
       \/ server \in {"starting", "closed"} /\ server' = server /\ mainPC' = "exit: server error"
    /\ UNCHANGED <<impl, registry, rpc, storeVars, heap, fs, nextID, clock, reqs, member>>

\* main: the signal arrives, and server.Shutdown closes the listener
Shutdown ==
    /\ mainPC = "quit"
    /\ mainPC' = "Shutdown"
    /\ server' = "closed"
    /\ UNCHANGED <<impl, registry, rpc, storeVars, heap, fs, nextID, clock, reqs, member>>

\* main: server.Shutdown returns nil when no request is being served, and
\* main returns into its deferred calls; with requests still served it
\* returns the error of its context, and main calls os.Exit(1)
ShutdownReturn ==
    /\ mainPC = "Shutdown"
    /\ mainPC' = IF Quiet THEN "Close" ELSE "exit: shutdown error"
    /\ UNCHANGED <<impl, registry, rpc, storeVars, heap, fs, nextID, clock, reqs, member, server>>

\* the deferred metaStore.Close(): MemoryStore.Close returns; EtcdStore.Close
\* closes the client, calls s.etcd.Close() and waits for StopNotify, and when
\* StopNotify is received Close returns and main ends
Close ==
    /\ \/ mainPC = "Close" /\ impl = "memory" /\ mainPC' = "returned" /\ member' = member
       \/ mainPC = "Close" /\ impl = "etcd" /\ mainPC' = "StopNotify" /\ member' = "stopping"
       \/ mainPC = "StopNotify" /\ member = "stopped" /\ mainPC' = "returned" /\ member' = member
    /\ UNCHANGED <<impl, registry, rpc, storeVars, heap, fs, nextID, clock, reqs, server>>

\* the process from the start of main to its end; requests arrive while the
\* server listens and are served while the process lives, and stay in their
\* slots
NextMain ==
    \/ NewStore
    \/ Member
    \/ EtcdReady
    \/ EtcdTimeout
    \/ NewClient
    \/ StartServer
    \/ ServerStart
    \/ Shutdown
    \/ ShutdownReturn
    \/ Close
    \/ \E r \in Slots, in \in ValidCreates :
          /\ mainPC \notin Exits /\ server = "listening" /\ NextUnused(r, Slots)
          /\ HandleCreate(r, in[1], in[2], in[3])
    \/ \E r \in Slots : mainPC \notin Exits /\ MemCreateVolume(r)
    \/ \E r \in Slots : mainPC \notin Exits /\ EtcdCreateGet(r)
    \/ \E r \in Slots : mainPC \notin Exits /\ EtcdCreateTxn(r)
    \/ \E r \in Slots : mainPC \notin Exits /\ RespondVolume(r)

SpecMain == InitMain /\ [][NextMain]_vars

\* ------------------------------------------------ the local backend, called
\* the outcomes a call can have on the filesystem as it is: os.MkdirAll
\* returns nil for a directory that exists, os.WriteFile rewrites a marker
\* that exists, and os.Remove reports a marker that does not exist
StageOutcomes(v, stagingPath) ==
    {"ok"} \cup {o \in {"source"} : Lookup(v.Parameters, "path") \notin fs}
           \cup {o \in {"staging"} : stagingPath \notin fs}
PublishOutcomes(targetPath) ==
    {"ok"} \cup {o \in {"target"} : targetPath \notin fs}
           \cup {o \in {"marker"} : MarkerFile(targetPath) \notin fs}
UnpublishOutcomes(targetPath) ==
    IF MarkerFile(targetPath) \in fs THEN {"ok", "remove"} ELSE {"absent"}

\* local.Backend.Unstage: nothing is cleaned up, and nil
UnstageError == ""

\* local.Backend.Unpublish, removeBindMount: the filesystem it leaves
UnpublishEffect(files, targetPath, outcome) ==
    IF outcome = "ok" THEN files \ {MarkerFile(targetPath)} ELSE files

\* a removeBindMount that reports a marker that does not exist
UnpublishErrorNotExist(outcome) ==
    IF outcome \in {"remove", "absent"} THEN "failed to remove bind mount" ELSE ""

\* local.Backend.Unpublish, removeBindMount: the error of os.Remove is
\* returned unless it is os.IsNotExist
UnpublishError(outcome) ==
    IF outcome = "remove" THEN "failed to remove bind mount" ELSE ""

\* the verbs of the backend
Verbs == {"Stage", "Unstage", "Publish", "Unpublish"}

\* one call of a verb of local.Backend for a volume with the parameters
\* `params`; the slot keeps the call and its error
BackendCall(r, verb, params, path, readOnly) ==
    /\ Unused(r)
    /\ LET v == NewVolume(1, "a", "local", params, 0)
           call == [NewReq(verb, 1) EXCEPT !.pc = "done", !.params = params, !.path = path, !.tmp = <<readOnly>>]
       IN  \/ /\ verb = "Stage"
              /\ \E outcome \in StageOutcomes(v, path) :
                    /\ fs' = fs \cup StageEffect(v, path, outcome)
                    /\ reqs' = [reqs EXCEPT ![r] = [call EXCEPT !.resp.error = StageError(outcome)]]
           \/ /\ verb = "Unstage"
              /\ fs' = fs
              /\ reqs' = [reqs EXCEPT ![r] = [call EXCEPT !.resp.error = UnstageError]]
           \/ /\ verb = "Publish"
              /\ \E outcome \in PublishOutcomes(path) :
                    /\ fs' = fs \cup PublishEffect(v, path, outcome)
                    /\ reqs' = [reqs EXCEPT ![r] = [call EXCEPT !.resp.error = PublishError(outcome)]]
           \/ /\ verb = "Unpublish"
              /\ \E outcome \in UnpublishOutcomes(path) :
                    /\ fs' = UnpublishEffect(fs, path, outcome)
                    /\ reqs' = [reqs EXCEPT ![r] = [call EXCEPT !.resp.error = UnpublishError(outcome)]]
    /\ UNCHANGED <<impl, registry, procVars, rpc, storeVars, heap, nextID, clock>>

\* MaxCreators calls of the verbs, one after another: a volume of either
\* source is staged and unstaged at the staging path, and published, read-only
\* or not, and unpublished at the target path
NextBackend ==
    \/ \E r \in Slots, params \in {PathParams(AbsPath), PathParams(RelPath)} :
          NextUnused(r, Slots) /\ BackendCall(r, "Stage", params, StagePath, FALSE)
    \/ \E r \in Slots : NextUnused(r, Slots) /\ BackendCall(r, "Unstage", PathParams(AbsPath), StagePath, FALSE)
    \/ \E r \in Slots, readOnly \in BOOLEAN :
          NextUnused(r, Slots) /\ BackendCall(r, "Publish", PathParams(AbsPath), TargetPath, readOnly)
    \/ \E r \in Slots : NextUnused(r, Slots) /\ BackendCall(r, "Unpublish", PathParams(AbsPath), TargetPath, FALSE)

SpecBackend == Init /\ [][NextBackend]_vars

\* ------------------------------------------- the initial cluster of etcd
\* the configurations config.Load can return: CLUSTER_SIZE, TASK_SLOT and
\* SERVICE_NAME are taken from the environment as they are
EtcdPeerPort == 2380
ClusterSizes == 0..MaxCreators
TaskSlots == 0..(MaxCreators + 1)
ServiceNames == {"vm", "db"}

\* the verb %d of fmt.Sprintf for a number that is not negative: its decimal
\* digits
RECURSIVE Itoa(_)
Itoa(n) ==
    LET digit == <<"0", "1", "2", "3", "4", "5", "6", "7", "8", "9">>[(n % 10) + 1]
    IN  IF n < 10 THEN <<digit>> ELSE Itoa(n \div 10) \o <<digit>>

\* fmt.Sprintf("%s-%d", cfg.ServiceName, i), as the pieces of the string
MemberName(service, i) == <<service, "-">> \o Itoa(i)

\* initialClusterFromSlice: the members joined by ","
RECURSIVE initialClusterFromSlice(_)
initialClusterFromSlice(members) ==
    IF members = <<>> THEN <<>>
    ELSE IF Len(members) = 1 THEN members[1]
    ELSE initialClusterFromSlice(SubSeq(members, 1, Len(members) - 1)) \o <<",">> \o members[Len(members)]

\* a loop over the ordinals 0..ClusterSize-1
InitialClusterFromZero(cfg) ==
    IF cfg.ClusterSize > 1
    THEN initialClusterFromSlice(
             [i \in 1..cfg.ClusterSize |->
                 MemberName(cfg.ServiceName, i - 1)
                     \o <<"=", "http://", cfg.ServiceName, ".">> \o Itoa(i - 1) \o <<":">> \o Itoa(cfg.PeerPort)])
    ELSE MemberName(cfg.ServiceName, cfg.TaskSlot) \o <<"=", "http://", "localhost", ":">> \o Itoa(cfg.PeerPort)

\* NewEtcdStore: etcdCfg.InitialCluster
InitialCluster(cfg) ==
    IF cfg.ClusterSize > 1
    THEN initialClusterFromSlice(
             [i \in 1..cfg.ClusterSize |->
                 MemberName(cfg.ServiceName, i)
                     \o <<"=", "http://", cfg.ServiceName, ".">> \o Itoa(i) \o <<":">> \o Itoa(cfg.PeerPort)])
    ELSE MemberName(cfg.ServiceName, cfg.TaskSlot) \o <<"=", "http://", "localhost", ":">> \o Itoa(cfg.PeerPort)

\* config.Load, and main's EtcdConfig: the slot holds the configuration
LoadConfig(r, service, slot, size) ==
    /\ Unused(r)
    /\ reqs' = [reqs EXCEPT ![r] = [NewReq("NewEtcdStore", slot) EXCEPT !.pc = "config", !.name = service,
                                        !.calls = size]]
    /\ UNCHANGED <<impl, registry, procVars, rpc, storeVars, heap, fs, nextID, clock>>

\* NewEtcdStore up to embed.StartEtcd: the slot holds etcdCfg.InitialCluster
BuildInitialCluster(r) ==
    /\ reqs[r].pc = "config"
    /\ reqs' = [reqs EXCEPT ![r].pc = "done",
                            ![r].tmp = InitialCluster([ServiceName |-> reqs[r].name, TaskSlot |-> reqs[r].id,
                                                       ClusterSize |-> reqs[r].calls, PeerPort |-> EtcdPeerPort])]
    /\ UNCHANGED <<impl, registry, procVars, rpc, storeVars, heap, fs, nextID, clock>>

NextCluster ==
    \/ \E r \in Callers, service \in ServiceNames, slot \in TaskSlots, size \in ClusterSizes :
          LoadConfig(r, service, slot, size)
    \/ \E r \in Callers : BuildInitialCluster(r)

SpecCluster == Init /\ [][NextCluster]_vars

\* ------------------------------------------------------ the file endpoints
\* strings.Split: the pieces of a string between the separators
RECURSIVE SplitAt(_, _)
SplitAt(str, sep) ==
    IF \A k \in 1..Len(str) : str[k] # sep THEN <<str>>
    ELSE LET k == CHOOSE j \in 1..Len(str) : str[j] = sep /\ \A l \in 1..(j - 1) : str[l] # sep
         IN  <<SubSeq(str, 1, k - 1)>> \o SplitAt(SubSeq(str, k + 1, Len(str)), sep)

\* strings.HasPrefix
HasPrefix(str, prefix) == Len(prefix) <= Len(str) /\ SubSeq(str, 1, Len(prefix)) = prefix

\* filepath.Clean of a rooted path, on its elements: empty elements and "."
\* are dropped, ".." drops the element before it, and nothing at the root
RECURSIVE CleanElements(_, _)
CleanElements(elems, kept) ==
    IF elems = <<>> THEN kept
    ELSE IF Head(elems) \in {<<>>, <<".">>} THEN CleanElements(Tail(elems), kept)
    ELSE IF Head(elems) = <<".", ".">>
    THEN CleanElements(Tail(elems), IF kept = <<>> THEN kept ELSE SubSeq(kept, 1, Len(kept) - 1))
    ELSE CleanElements(Tail(elems), Append(kept, Head(elems)))

\* the rooted path of a list of elements
RECURSIVE Rooted(_)
Rooted(elems) ==
    IF elems = <<>> THEN <<"/">>
    ELSE IF Len(elems) = 1 THEN <<"/">> \o elems[1]
    ELSE Rooted(SubSeq(elems, 1, Len(elems) - 1)) \o <<"/">> \o elems[Len(elems)]

\* filepath.Join(volumePath, requestedPath) for an absolute volumePath
Join(volumePath, requestedPath) ==
    Rooted(CleanElements(SplitAt(volumePath \o <<"/">> \o requestedPath, "/"), <<>>))

\* the test of the file handlers: strings.HasPrefix(fullPath, volumePath)
InsideVolume(fullPath, volumePath) == HasPrefix(fullPath, volumePath)

\* the values of the wildcard of /volumes/:id/files/*
RequestedPaths ==
    {<<>>, <<"/">>, <<"f">>, <<"a", "/", ".", ".", "/", "f">>, <<".", ".", "/", "e">>,
     <<".", ".", "/", "d", "2", "/", "f">>}

\* GET, PUT and DELETE /api/v1/volumes/:id/files/*: FileHandler.HandleGet,
\* HandlePut and HandleDelete; the slot keeps the path the handler went on
\* with, and the response
HandleFile(r, op, id, wildcard) ==
    /\ Unused(r)
    /\ LET in == [NewReq(op, id) EXCEPT !.pc = "done"]
           requestedPath == IF wildcard = <<>> THEN <<"/">>
                            ELSE IF ~HasPrefix(wildcard, <<"/">>) THEN <<"/">> \o wildcard ELSE wildcard
           answer(code, error, message) ==
               [in EXCEPT !.resp = [code |-> code, error |-> error, message |-> message, body |-> NoBody]]
       IN  IF op # "file_get" /\ wildcard \in {<<>>, <<"/">>}
           THEN /\ reqs' = [reqs EXCEPT ![r] = answer(StatusBadRequest, "invalid_path",
                                                      IF op = "file_put" THEN "Cannot write to root directory"
                                                      ELSE "Cannot delete root directory")]
                /\ fs' = fs
           ELSE IF ~GetFound(id)
           THEN reqs' = [reqs EXCEPT ![r] = NotFound(in)] /\ fs' = fs
           ELSE LET volume == Records[id]
                IN  IF ~HasKey(volume.Parameters, "path") \/ Lookup(volume.Parameters, "path") = <<>>
                    THEN /\ reqs' = [reqs EXCEPT ![r] = answer(StatusBadRequest, "invalid_volume", "Volume has no path parameter")]
                         /\ fs' = fs
                    ELSE LET volumePath == Lookup(volume.Parameters, "path")
                             fullPath == Join(volumePath, requestedPath)
                             went == [in EXCEPT !.path = fullPath]
                             ok == [went EXCEPT !.resp.code = IF op = "file_put" THEN StatusCreated ELSE StatusOK]
                             notFound == [went EXCEPT !.resp = [code |-> StatusNotFound, error |-> "not_found",
                                                                message |-> "Path not found", body |-> NoBody]]
                             failed == [went EXCEPT !.resp = [code |-> StatusInternalServerError, error |-> "internal_error",
                                                              message |-> "Failed", body |-> NoBody]]
                             elems == SplitAt(Tail(fullPath), "/")
                         IN  IF ~InsideVolume(fullPath, volumePath)
                             THEN /\ reqs' = [reqs EXCEPT ![r] = answer(StatusBadRequest, "invalid_path", "Path traversal not allowed")]
                                  /\ fs' = fs
                             ELSE IF op = "file_put"
                             THEN \/ /\ fs' = fs \cup {fullPath} \cup {Rooted(SubSeq(elems, 1, k)) : k \in 1..(Len(elems) - 1)}
                                     /\ reqs' = [reqs EXCEPT ![r] = ok]
                                  \/ /\ fs' = fs
                                     /\ reqs' = [reqs EXCEPT ![r] = failed]
                             ELSE IF fullPath \notin fs
                             THEN reqs' = [reqs EXCEPT ![r] = notFound] /\ fs' = fs
                             ELSE IF op = "file_get"
                             THEN reqs' = [reqs EXCEPT ![r] = ok] /\ fs' = fs
                             ELSE \/ /\ fs' = {q \in fs : q # fullPath /\ ~HasPrefix(q, fullPath \o <<"/">>)}
                                     /\ reqs' = [reqs EXCEPT ![r] = ok]
                                  \/ /\ fs' = fs
                                     /\ reqs' = [reqs EXCEPT ![r] = failed]
    /\ heap' = Collect(heap, reqs', memVolumes)
    /\ UNCHANGED <<impl, registry, procVars, rpc, storeVars, nextID, clock>>

\* a volume is created, and then files of it are read, written and deleted,
\* one request after another; the requests stay in their slots
NextFiles ==
    \/ \E o \in Owners, in \in ValidCreates : Unused(o) /\ HandleCreate(o, in[1], in[2], in[3])
    \/ \E o \in Owners : MemCreateVolume(o)
    \/ \E o \in Owners : EtcdCreateGet(o)
    \/ \E o \in Owners : EtcdCreateTxn(o)
    \/ \E o \in Owners : RespondVolume(o)
    \/ \E o \in Owners, r \in Attachers, op \in {"file_get", "file_put", "file_delete"}, id \in StoreIDs,
          wildcard \in RequestedPaths :
          /\ CreatedIn(o) /\ NextUnused(r, Attachers)
          /\ HandleFile(r, op, id, wildcard)

SpecFiles == Init /\ [][NextFiles]_vars

\* ================================================================ properties
\* slot r starts to serve a request of kind op in this step
Arrives(r, op) == Free(r) /\ reqs'[r] # reqs[r] /\ reqs'[r].op = op /\ reqs'[r].pc # "idle"

\* the request of slot r takes a step
Steps(r) == reqs'[r] # reqs[r] /\ reqs'[r].pc # "idle"

\* the records with a given name
Named(nm) == {i \in DOMAIN Records : Records[i].Name = nm}

\* ---------------------------------------------------------------------- C1
\* the create requests for a name, and those among them answered 201
CreatesOf(nm) == {r \in Slots : reqs[r].op = "create" /\ reqs[r].name = nm}
Winners(nm) == {r \in CreatesOf(nm) : reqs[r].resp.code = StatusCreated}

\* C1: when the concurrent create requests for one name have all been
\* answered, exactly one of them got 201 and every other one 409
\* already_exists, and the catalog holds exactly one record of that name,
\* the one the name index points to; this in the memory store and in etcd.
C1_OneCreateWins ==
    \A nm \in {"a", "b"} :
        (CreatesOf(nm) # {} /\ \A r \in CreatesOf(nm) : reqs[r].pc = "done") =>
            /\ Cardinality(Winners(nm)) = 1
            /\ \A r \in CreatesOf(nm) \ Winners(nm) :
                  reqs[r].resp.code = StatusConflict /\ reqs[r].resp.error = "already_exists"
            /\ Cardinality(Named(nm)) = 1
            /\ \A r \in Winners(nm) : Named(nm) = {reqs[r].id}
            /\ nm \in DOMAIN NameIndex /\ Named(nm) = {NameIndex[nm]}

\* every slot has created the same name, and a request that arrived later
\* than another one won
C1_Witness ==
    /\ CreatesOf("a") = Slots
    /\ \A r \in Slots : reqs[r].pc = "done"
    /\ \E r \in Winners("a") : r > 1
    /\ Cardinality(CreatesOf("a") \ Winners("a")) = MaxCreators - 1

\* ---------------------------------------------------------------------- C2
\* C2: in every reachable state of the server, whatever the interleaving of
\* create, delete, stage and publish requests, no two records of the catalog
\* have the same Name and no two have the same ID.
C2_UniqueNameAndID ==
    \A i, j \in DOMAIN Records :
        i # j => Records[i].Name # Records[j].Name /\ Records[i].ID # Records[j].ID

\* ---------------------------------------------------------------------- C3
\* the step in which the delete request of slot r tests volume.PublishedOn
DeleteTests(r) ==
    \/ impl = "etcd" /\ Arrives(r, "delete")
    \/ impl = "memory" /\ reqs[r].pc = "delete_check" /\ Steps(r)

\* C3: a delete request that finds the stored record with a non-empty
\* PublishedOn is answered 409 volume_in_use and leaves the records and the
\* name index as they are; one that finds PublishedOn empty goes on to
\* store.DeleteVolume, which removes the record and lets the handler answer 200.
C3_DeleteRefusedWhilePublished ==
    [][\A r \in Slots :
        LET rq == reqs'[r]
            id == reqs'[r].id
        IN  /\ (DeleteTests(r) /\ id \in DOMAIN Records /\ Len(Records[id].PublishedOn) > 0) =>
                  /\ rq.pc = "done"
                  /\ rq.resp.code = StatusConflict /\ rq.resp.error = "volume_in_use"
                  /\ Records' = Records /\ NameIndex' = NameIndex
            /\ (DeleteTests(r) /\ id \in DOMAIN Records /\ Len(Records[id].PublishedOn) = 0) =>
                  /\ rq.pc = "DeleteVolume"
                  /\ Records' = Records /\ NameIndex' = NameIndex
            /\ (reqs[r].pc = "DeleteVolume" /\ Steps(r) /\ id \in DOMAIN Records) =>
                  IF impl = "memory"
                  THEN /\ rq.pc = "done" /\ rq.resp.code = StatusOK
                       /\ id \notin DOMAIN Records'
                       /\ Records[id].Name \notin DOMAIN NameIndex'
                  ELSE rq.pc = "DeleteVolume_txn" /\ rq.name = Records[id].Name
            /\ (reqs[r].pc = "DeleteVolume_txn" /\ Steps(r)) =>
                  /\ rq.pc = "done" /\ rq.resp.code = StatusOK
                  /\ id \notin DOMAIN Records'
                  /\ reqs[r].name \notin DOMAIN NameIndex'
      ]_vars

\* a delete has been answered 409 volume_in_use, and the record is still
\* stored, published and indexed by name
C3_Witness ==
    \E r \in Slots :
        /\ reqs[r].op = "delete" /\ reqs[r].pc = "done"
        /\ reqs[r].resp.code = StatusConflict /\ reqs[r].resp.error = "volume_in_use"
        /\ reqs[r].id \in DOMAIN Records
        /\ Len(Records[reqs[r].id].PublishedOn) > 0
        /\ Records[reqs[r].id].Name \in DOMAIN NameIndex
        /\ NameIndex[Records[reqs[r].id].Name] = reqs[r].id

\* ---------------------------------------------------------------------- C4
\* C4: whatever the interleaving of a delete with a publish on the same
\* volume, no step removes a record from the catalog while its PublishedOn
\* is non-empty.
C4_NeverRemovedWhilePublished ==
    [][\A id \in DOMAIN Records :
          Len(Records[id].PublishedOn) > 0 => id \in DOMAIN Records'
      ]_vars

\* ---------------------------------------------------------------------- C5
\* the Status, StagedOn and PublishedOn of the stored record of caller c
StoredIs(c, status, stagedOn, publishedOn) ==
    /\ reqs[c].id \in DOMAIN Records
    /\ Records[reqs[c].id].Status = status
    /\ Records[reqs[c].id].StagedOn = stagedOn
    /\ Records[reqs[c].id].PublishedOn = publishedOn

\* C5: for one caller that sends create, stage for node n and publish for
\* node n in sequence, the stored record is created with both lists empty
\* after the create, staged with StagedOn = [n] after the stage, and
\* published with StagedOn = [n] and PublishedOn = [n] after the publish.
C5_LifecycleStates ==
    \A c \in Callers :
        /\ LastOK(c, "create") => StoredIs(c, VolumeStatusCreated, <<>>, <<>>)
        /\ LastOK(c, "stage") => StoredIs(c, VolumeStatusStaged, <<reqs[c].node>>, <<>>)
        /\ LastOK(c, "publish") => StoredIs(c, VolumeStatusPublished, <<reqs[c].node>>, <<reqs[c].node>>)

\* the publish for n2 has been answered 200 at the third reading of the clock
C5_Witness ==
    \E c \in Callers :
        /\ LastOK(c, "publish")
        /\ reqs[c].node = "n2"
        /\ StoredIs(c, VolumeStatusPublished, <<"n2">>, <<"n2">>)
        /\ Records[reqs[c].id].UpdatedAt = 3

\* ---------------------------------------------------------------------- C6
\* C6: an unpublish request for a volume that is published removes a node
\* from the PublishedOn of the stored record (so that, once every node is
\* removed, a delete succeeds).
C6_UnpublishRemovesNode ==
    [][\A r \in Slots :
        (/\ Arrives(r, "unpublish")
         /\ reqs'[r].pc = "done"
         /\ reqs'[r].id \in DOMAIN Records
         /\ Len(Records[reqs'[r].id].PublishedOn) > 0) =>
            /\ reqs'[r].id \in DOMAIN Records'
            /\ Len(Records'[reqs'[r].id].PublishedOn) < Len(Records[reqs'[r].id].PublishedOn)
      ]_vars

\* ---------------------------------------------------------------------- C7
\* C7: a get with the ID a successful create returned is answered 200 with
\* the name, backend and parameters of the create request and the status
\* created; this in the memory store and in etcd.
C7_GetReturnsCreated ==
    \A c \in Writers, g \in Readers :
        (/\ CreatedIn(c)
         /\ reqs[g].op = "get" /\ reqs[g].pc = "done"
         /\ reqs[g].id = reqs[c].resp.body.id) =>
            /\ reqs[g].resp.code = StatusOK
            /\ reqs[g].resp.body.id = reqs[c].resp.body.id
            /\ reqs[g].resp.body.name = reqs[c].name
            /\ reqs[g].resp.body.backend = reqs[c].backend
            /\ reqs[g].resp.body.parameters = reqs[c].params
            /\ reqs[g].resp.body.status = VolumeStatusCreated

\* both creates succeeded, and the get of the volume named "b" was answered
C7_Witness ==
    /\ \A c \in Writers : CreatedIn(c)
    /\ \E c \in Writers, g \in Readers :
          /\ reqs[c].name = "b"
          /\ reqs[g].op = "get" /\ reqs[g].pc = "done"
          /\ reqs[g].resp.code = StatusOK
          /\ reqs[g].id = reqs[c].resp.body.id
          /\ reqs[g].resp.body.name = "b"
          /\ reqs[g].resp.body.parameters = PathParams(AbsPath)

\* ---------------------------------------------------------------------- C8
\* a create request one of the checks of HandleCreate refuses
Refused(rq) ==
    \/ rq.name = ""
    \/ rq.backend = ""
    \/ rq.backend \notin DOMAIN registry
    \/ ~HasKey(rq.params, "path")
    \/ Lookup(rq.params, "path") = <<>>
    \/ Lookup(rq.params, "path")[1] # "/"

\* C8: a create request with an empty name, an empty or unregistered backend
\* or parameters the backend rejects is answered 400 (validation_error or
\* invalid_backend) in its first step and writes nothing; a step of a create
\* request that writes to the catalog belongs to a request that passed the
\* checks and adds exactly one record, under an ID no record and no other
\* create request has, with the request's name, backend and parameters and
\* the status created.
C8_ValidatedBeforeWrite ==
    [][\A r \in Slots :
        LET rq == reqs'[r]
        IN  (rq.op = "create" /\ Steps(r)) =>
              /\ Refused(rq) =>
                    /\ Arrives(r, "create")
                    /\ rq.pc = "done"
                    /\ rq.resp.code = StatusBadRequest
                    /\ rq.resp.error \in {"validation_error", "invalid_backend"}
                    /\ (rq.resp.error = "invalid_backend") = (rq.name # "" /\ rq.backend # "" /\ rq.backend \notin DOMAIN registry)
                    /\ Records' = Records /\ NameIndex' = NameIndex
                    /\ UNCHANGED <<storeVars, nextID>>
              /\ (Records' # Records \/ NameIndex' # NameIndex) =>
                    /\ ~Refused(rq)
                    /\ rq.id \notin DOMAIN Records
                    /\ \A q \in Slots \ {r} : reqs[q].op = "create" => reqs[q].id # rq.id
                    /\ DOMAIN Records' = DOMAIN Records \cup {rq.id}
                    /\ \A i \in DOMAIN Records : Records'[i] = Records[i]
                    /\ Records'[rq.id].ID = rq.id
                    /\ Records'[rq.id].Name = rq.name
                    /\ Records'[rq.id].Backend = rq.backend
                    /\ Records'[rq.id].Parameters = rq.params
                    /\ Records'[rq.id].Status = VolumeStatusCreated
                    /\ DOMAIN NameIndex' = DOMAIN NameIndex \cup {rq.name}
                    /\ NameIndex'[rq.name] = rq.id
      ]_vars

\* a create for an unregistered backend has been answered 400 while the
\* catalog holds a record
C8_Witness ==
    \E r \in Slots :
        /\ reqs[r].op = "create" /\ reqs[r].pc = "done"
        /\ reqs[r].backend = "zip"
        /\ reqs[r].resp.code = StatusBadRequest /\ reqs[r].resp.error = "invalid_backend"
        /\ DOMAIN Records # {}
        /\ nextID = Cardinality(DOMAIN Records)

\* ---------------------------------------------------------------------- C9
\* both nodes' requests of kind op were answered 200
BothAttached(op) == \A r \in Attachers : reqs[r].op = op /\ reqs[r].pc = "done" /\ reqs[r].resp.code = StatusOK

\* the elements of a list
Range(seq) == {seq[k] : k \in 1..Len(seq)}

\* C9: when two different nodes stage the same volume concurrently and both
\* requests succeed, the stored record has both nodes in StagedOn; when both
\* publish, it has both in PublishedOn; this in the memory store and in etcd.
C9_BothNodesRecorded ==
    \A o \in Owners :
        /\ BothAttached("stage") => {"n1", "n2"} \subseteq Range(Records[reqs[o].id].StagedOn)
        /\ BothAttached("publish") => {"n1", "n2"} \subseteq Range(Records[reqs[o].id].PublishedOn)

\* --------------------------------------------------------------------- C10
\* C10: when backend.Stage or backend.Publish returns an error, the request is
\* answered 500 stage_failed / publish_failed with that error after exactly
\* one call of the backend, and no step of the request up to and including
\* that call has changed the catalog: the stored record keeps its Status,
\* StagedOn, PublishedOn and UpdatedAt.
C10_BackendErrorChangesNothing ==
    [][\A r \in Slots :
        LET rq == reqs'[r]
        IN  /\ (rq.op \in {"stage", "publish"} /\ Steps(r) /\ reqs[r].calls = 0) =>
                  /\ Records' = Records /\ NameIndex' = NameIndex
                  /\ rq.calls <= 1
            /\ (Steps(r) /\ rq.pc = "done" /\ rq.resp.error \in {"stage_failed", "publish_failed"}) =>
                  /\ reqs[r].calls = 0 /\ rq.calls = 1
                  /\ rq.resp.code = StatusInternalServerError
                  /\ rq.resp.error = (IF rq.op = "stage" THEN "stage_failed" ELSE "publish_failed")
                  /\ rq.resp.message \in
                        (IF rq.op = "stage"
                         THEN {StageError("source"), StageError("staging")}
                         ELSE {PublishError("target"), PublishError("marker")})
                  /\ rq.resp.body = NoBody
      ]_vars

\* a stage has been answered 500 stage_failed after one call of the backend
\* that made the source directory, and the stored record is as it was created
C10_Witness ==
    \E r \in Slots :
        /\ reqs[r].op = "stage" /\ reqs[r].pc = "done"
        /\ reqs[r].resp.error = "stage_failed"
        /\ reqs[r].calls = 1
        /\ fs = {AbsPath}
        /\ reqs[r].id \in DOMAIN Records
        /\ Records[reqs[r].id].Status = VolumeStatusCreated
        /\ Records[reqs[r].id].StagedOn = <<>>
        /\ Records[reqs[r].id].UpdatedAt = Records[reqs[r].id].CreatedAt

\* --------------------------------------------------------------------- C11
\* C11: when a stage (publish) request of node n is answered 200, the catalog
\* holds the record with n in StagedOn (PublishedOn), so a get that follows
\* at once shows it; a request whose store update failed is not answered 200.
C11_SuccessMeansPersisted ==
    \A r \in Slots :
        (reqs[r].op \in {"stage", "publish"} /\ reqs[r].pc = "done" /\ reqs[r].resp.code = StatusOK) =>
            /\ reqs[r].id \in DOMAIN Records
            /\ reqs[r].node \in Range(IF reqs[r].op = "stage"
                                      THEN Records[reqs[r].id].StagedOn
                                      ELSE Records[reqs[r].id].PublishedOn)

\* --------------------------------------------------------------------- C12
\* the request of slot r has had its backend call of kind op for volume id
\* and node n acknowledged
Acknowledged(r, op, id, n) ==
    /\ reqs[r].op = op /\ reqs[r].id = id /\ reqs[r].node = n
    /\ reqs[r].calls = 1
    /\ reqs[r].pc \notin {"stage_backend", "publish_backend"}
    /\ reqs[r].resp.error \notin {"stage_failed", "publish_failed"}

\* C12: in every reachable state, a node is in the StagedOn of a stored
\* record only if a backend Stage call for that node and volume has returned
\* success (and so has made the staging directory), and in its PublishedOn
\* only if a backend Publish call for that node and volume has returned
\* success (and so has written the marker file).
C12_ListedOnlyAfterAcknowledgement ==
    \A id \in DOMAIN Records :
        /\ \A n \in Range(Records[id].StagedOn) :
              StagePath \in fs /\ \E r \in Attachers : Acknowledged(r, "stage", id, n)
        /\ \A n \in Range(Records[id].PublishedOn) :
              MarkerFile(TargetPath) \in fs /\ \E r \in Attachers : Acknowledged(r, "publish", id, n)

\* the record is stored again by the update of a stage after its delete
\* completed, and lists the node whose Stage was acknowledged; the other
\* node's Stage failed
C12_Witness ==
    \E o \in Owners :
        /\ reqs[o].op = "delete" /\ reqs[o].pc = "done" /\ reqs[o].resp.code = StatusOK
        /\ reqs[o].id \in DOMAIN Records
        /\ Records[reqs[o].id].StagedOn = <<"n2">>
        /\ reqs[1].resp.error = "stage_failed"

\* --------------------------------------------------------------------- C13
\* C13: no step of the server changes the ID, Name, Backend or Parameters of
\* a record that stays in the catalog: through every sequence of stage,
\* publish and refused delete requests they stay as they were created.
C13_IdentityFieldsKept ==
    [][\A id \in DOMAIN Records \cap DOMAIN Records' :
          /\ Records'[id].ID = Records[id].ID
          /\ Records'[id].Name = Records[id].Name
          /\ Records'[id].Backend = Records[id].Backend
          /\ Records'[id].Parameters = Records[id].Parameters]_vars

\* a stage has been answered 200 and has rewritten the record (a new
\* UpdatedAt, the node in StagedOn), which still has the ID, Name, Backend and
\* Parameters of the create request
C13_Witness ==
    \E r \in Slots :
        /\ reqs[r].op = "stage" /\ reqs[r].pc = "done" /\ reqs[r].resp.code = StatusOK
        /\ reqs[r].id \in DOMAIN Records
        /\ Records[reqs[r].id].StagedOn = <<reqs[r].node>>
        /\ Records[reqs[r].id].UpdatedAt # Records[reqs[r].id].CreatedAt
        /\ Records[reqs[r].id].ID = reqs[r].id
        /\ Records[reqs[r].id].Name = "a"
        /\ Records[reqs[r].id].Backend = "local"
        /\ Records[reqs[r].id].Parameters = PathParams(AbsPath)

\* --------------------------------------------------------------------- C14
\* C14: in every reachable state no node identifier occurs more than once in
\* the StagedOn or in the PublishedOn of a stored record.
C14_NoNodeTwice ==
    \A id \in DOMAIN Records :
        /\ Cardinality(Range(Records[id].StagedOn)) = Len(Records[id].StagedOn)
        /\ Cardinality(Range(Records[id].PublishedOn)) = Len(Records[id].PublishedOn)

\* --------------------------------------------------------------------- C15
\* the edges of the lifecycle: forward one stage at a time, back on unpublish
\* and unstage, and from anywhere to failed; a stage that is stored once, after
\* its acknowledgement, takes both of its edges in one write
LifecycleEdges ==
    {<<VolumeStatusCreated, VolumeStatusStaging>>, <<VolumeStatusStaging, VolumeStatusStaged>>,
     <<VolumeStatusCreated, VolumeStatusStaged>>,
     <<VolumeStatusStaged, VolumeStatusPublished>>, <<VolumeStatusPublished, VolumeStatusStaged>>,
     <<VolumeStatusStaged, VolumeStatusCreated>>}
    \cup {<<s, VolumeStatusFailed>> : s \in {VolumeStatusCreated, VolumeStatusStaging, VolumeStatusStaged,
                                            VolumeStatusPublished, VolumeStatusFailed}}

\* C15: every step that changes the Status of a stored record follows an edge
\* of the lifecycle; in particular none takes it from created to published.
C15_StatusFollowsLifecycle ==
    [][\A id \in DOMAIN Records \cap DOMAIN Records' :
          Records'[id].Status # Records[id].Status =>
              <<Records[id].Status, Records'[id].Status>> \in LifecycleEdges]_vars

\* --------------------------------------------------------------------- C16
\* C16: a step of Store.CreateVolume taken while a record with the ID or the
\* name of the new record exists changes neither the records nor the name
\* index, and the call then ends with AlreadyExists; a step that does write
\* adds the record and its name entry together, in both stores.
C16_CreateFailsOnExisting ==
    [][\A r \in Slots :
        LET v == heap[reqs[r].volume]
            exists == v.ID \in DOMAIN Records \/ v.Name \in DOMAIN NameIndex
        IN  (reqs[r].pc \in {"CreateVolume", "CreateVolume_txn"} /\ reqs'[r] # reqs[r]) =>
                /\ exists => (Records' = Records /\ NameIndex' = NameIndex)
                /\ (exists /\ reqs'[r].pc = "done") => reqs'[r].resp.code = StatusConflict
                /\ (Records' # Records \/ NameIndex' # NameIndex) =>
                       /\ Records' = Records @@ (v.ID :> v)
                       /\ NameIndex' = NameIndex @@ (v.Name :> v.ID)]_vars

\* --------------------------------------------------------------------- C17
\* C17: no step of Store.UpdateVolume puts a record under an ID that has
\* none, whatever runs concurrently: after a completed delete of a volume no
\* update leaves a record of it in the catalog.
C17_UpdateNeverCreates ==
    [][\A r \in Slots :
        (reqs[r].pc \in {"UpdateVolume", "UpdateVolume_put"} /\ reqs'[r] # reqs[r]) =>
            (reqs[r].id \notin DOMAIN Records => reqs[r].id \notin DOMAIN Records')]_vars

\* --------------------------------------------------------------------- C18
\* C18: a call of Store.DeleteVolume that ends while no record has its ID
\* does not succeed and removes nothing; a step of a delete that changes the
\* store removes exactly the record of its ID and the name entry of that
\* record, so of two concurrent deletes of one ID only one succeeds and the
\* name entry of another record is never removed.
C18_DeleteRemovesOwnRecordOnce ==
    [][\A r \in Slots :
        LET id == reqs[r].id
        IN  (reqs[r].pc \in {"DeleteVolume", "DeleteVolume_txn"} /\ reqs'[r] # reqs[r]) =>
                /\ (id \notin DOMAIN Records /\ reqs'[r].pc = "done") =>
                       /\ reqs'[r].resp.code # StatusOK
                       /\ Records' = Records /\ NameIndex' = NameIndex
                /\ (Records' # Records \/ NameIndex' # NameIndex) =>
                       /\ id \in DOMAIN Records
                       /\ Records' = Without(Records, id)
                       /\ NameIndex' = Without(NameIndex, Records[id].Name)]_vars

\* --------------------------------------------------------------------- C19
\* C19: every delete request is answered ok, not-found or conflict, never
\* with an internal error, also when two deletes of one volume run together.
C19_DeleteOutcomes ==
    \A r \in Slots :
        (reqs[r].op = "delete" /\ reqs[r].pc = "done") =>
            reqs[r].resp.code \in {StatusOK, StatusNotFound, StatusConflict}

\* --------------------------------------------------------------------- C20
\* what the DeleteVolume call of the bridge whose request is in slot r returns
BridgeDelete(r) == ControllerDeleteVolume(reqs[r].id, ClientDeleteVolume(reqs[r].resp))

\* C20: for a bridge that calls DeleteVolume twice in sequence for one ID,
\* each call returns OK: the first is answered 200 when the (unpublished)
\* volume exists and 404 when it was never created, the second is answered
\* 404, the store having no record of the ID, and the bridge turns the 404
\* into success.
C20_BridgeDeleteIdempotent ==
    \A r \in FirstCalls \cup SecondCalls :
        (reqs[r].op = "delete" /\ reqs[r].pc = "done") =>
            /\ BridgeDelete(r) = "OK"
            /\ ~GetFound(reqs[r].id)
            /\ reqs[r].resp.code = IF r \in FirstCalls /\ reqs[r].id <= nextID THEN StatusOK ELSE StatusNotFound

\* both calls for a created and staged volume have returned OK, the first
\* on a 200 and the second on a 404
C20_Witness ==
    \E f \in FirstCalls, r \in SecondCalls, o \in Owners :
        /\ reqs[o].op = "stage" /\ reqs[o].resp.code = StatusOK
        /\ reqs[f].pc = "done" /\ reqs[f].resp.code = StatusOK /\ BridgeDelete(f) = "OK"
        /\ reqs[r].pc = "done" /\ reqs[r].resp.code = StatusNotFound /\ BridgeDelete(r) = "OK"
        /\ reqs[r].id = reqs[o].id

\* --------------------------------------------------------------------- C21
\* the driver has returned from a call of one of the methods ms
Returned(ms) == rpc.pc = "done" /\ rpc.method \in ms

\* C21: a NodeUnstageVolume or NodeUnpublishVolume call for an existing
\* volume returns OK, whether or not the path was ever staged or published,
\* and so does its repetition.
C21_TeardownRpcSucceeds ==
    (Returned({"NodeUnstageVolume", "NodeUnpublishVolume"}) /\ rpc.id \in DOMAIN Records) => rpc.code = "OK"

\* --------------------------------------------------------------------- C22
\* C22: every CreateVolume call with a name and parameters the backend
\* accepts returns OK and the ID of the one record of that name, also when
\* the call repeats an earlier one.
C22_CreateRpcIdempotent ==
    (Returned({"CreateVolume"}) /\ rpc.name # "" /\ rpc.params = PathParams(AbsPath)) =>
        /\ rpc.code = "OK"
        /\ rpc.name \in DOMAIN NameIndex
        /\ rpc.vol = NameIndex[rpc.name]
        /\ Cardinality({id \in DOMAIN Records : Records[id].Name = rpc.name}) = 1

\* --------------------------------------------------------------------- C23
\* C23: when NodeStageVolume (NodePublishVolume) of the driver with node
\* identifier n has returned OK, the StagedOn (PublishedOn) of the stored
\* record contains n, and no empty or other identifier.
C23_RpcRecordsNodeID ==
    (Returned({"NodeStageVolume", "NodePublishVolume"}) /\ rpc.code = "OK") =>
        /\ rpc.id \in DOMAIN Records
        /\ LET on == IF rpc.method = "NodeStageVolume" THEN Records[rpc.id].StagedOn
                     ELSE Records[rpc.id].PublishedOn
           IN  Range(on) = {nodeID}

\* --------------------------------------------------------------------- C24
\* C24: a CreateVolume call whose request the volume manager refuses with a
\* validation error (400) returns InvalidArgument.
C24_ValidationIsInvalidArgument ==
    (Returned({"CreateVolume"}) /\ rpc.status = StatusBadRequest) => rpc.code = "InvalidArgument"

\* --------------------------------------------------------------------- C25
\* C25: NodeStageVolume, NodePublishVolume and ValidateVolumeCapabilities
\* return NotFound exactly when the volume manager answered not-found, and
\* Internal for every other failure it reports.
C25_NotFoundIsNotFound ==
    (Returned({"NodeStageVolume", "NodePublishVolume", "ValidateVolumeCapabilities"}) /\ rpc.status # 0) =>
        /\ (rpc.code = "NotFound") = (rpc.status = StatusNotFound)
        /\ rpc.status \notin {StatusOK, StatusNotFound} => rpc.code = "Internal"

\* --------------------------------------------------------------------- C26
\* C26: a RegisterBackend call for a name that is registered returns
\* AlreadyRegistered and leaves the registry as it is, and one for a free
\* name adds its factory and returns nil; so every registered name keeps
\* resolving through GetBackend to the factory registered first, and
\* GetBackend of a name that is not registered fails with BackendNotFound.
C26_FirstRegistrationKept ==
    [][/\ \A r \in Slots :
            (reqs'[r] # reqs[r] /\ reqs'[r].op = "RegisterBackend") =>
                IF reqs'[r].name \in DOMAIN registry
                THEN reqs'[r].resp.error = "ErrBackendAlreadyRegistered" /\ registry' = registry
                ELSE reqs'[r].resp.error = "" /\ registry' = registry @@ (reqs'[r].name :> reqs'[r].tmp[1])
       /\ \A name \in DOMAIN registry : GetBackend(name)' = GetBackend(name)
       /\ \A name \in BackendNames \ DOMAIN registry : GetBackend(name).err = "ErrBackendNotFound"]_vars

\* a second registration of "zip", with another factory, was refused, and
\* GetBackend("zip") still returns what the first factory makes
C26_Witness ==
    \E r, q \in Slots :
        /\ reqs[r].op = "RegisterBackend" /\ reqs[r].name = "zip" /\ reqs[r].resp.error = ""
        /\ reqs[q].op = "RegisterBackend" /\ reqs[q].name = "zip"
        /\ reqs[q].resp.error = "ErrBackendAlreadyRegistered"
        /\ reqs[q].tmp # reqs[r].tmp
        /\ GetBackend("zip") = reqs[r].tmp[1]

\* --------------------------------------------------------------------- C27
\* C27: the list of backends answered by a step holds exactly one entry for
\* every registered name and no other, with that backend's name and
\* capabilities, and the count is the number of registered backends; with
\* only "local" registered it is the one entry "local" with
\* SupportsReadWrite true.
C27_ListsEveryBackend ==
    [][\A r \in Slots :
        (reqs'[r] # reqs[r] /\ reqs'[r].op = "backends") =>
            LET list == reqs'[r].resp.body.backends
            IN  /\ reqs'[r].resp.body.count = Cardinality(DOMAIN registry)
                /\ Len(list) = Cardinality(DOMAIN registry)
                /\ {list[i].name : i \in DOMAIN list} = DOMAIN registry
                /\ \A i \in DOMAIN list : list[i].capabilities = registry[list[i].name].backend.Capabilities
                /\ DOMAIN registry = {"local"} =>
                       (Len(list) = 1 /\ list[1].name = "local" /\ list[1].capabilities.SupportsReadWrite)]_vars

\* --------------------------------------------------------------------- C28
\* C28: with the calls issued one at a time, every call of CreateVolume,
\* GetVolume and DeleteVolume returns, in either store, the result the
\* MemoryStore returns on the same records, and leaves the records and the
\* name index the MemoryStore leaves.
C28_StoresInterchangeable ==
    [][\A r \in Slots :
        /\ (reqs[r].pc \in {"CreateVolume", "CreateVolume_txn"} /\ reqs'[r].pc \in {"done", "respond"}) =>
              LET m == MemoryCreateVolume(Records, NameIndex, heap[reqs[r].volume])
              IN  /\ (reqs'[r].resp.code = StatusConflict) <=> (m.err # "")
                  /\ Records' = m.recs
                  /\ NameIndex' = m.names
        /\ (reqs'[r] # reqs[r] /\ reqs[r].pc = "idle" /\ reqs'[r].op \in {"get", "delete"}) =>
              (reqs'[r].resp.code = StatusNotFound) <=> (MemoryGetVolume(Records, reqs'[r].id).err # "")
        /\ (reqs'[r] # reqs[r] /\ reqs'[r].op = "get" /\ reqs'[r].resp.code = StatusOK) =>
              reqs'[r].resp.body = Marshal(MemoryGetVolume(Records, reqs'[r].id).volume)
        /\ (reqs[r].pc \in {"DeleteVolume", "DeleteVolume_txn"} /\ reqs'[r].pc = "done") =>
              LET m == MemoryDeleteVolume(Records, NameIndex, reqs[r].id)
              IN  /\ (reqs'[r].resp.code = StatusInternalServerError) <=> (m.err # "")
                  /\ Records' = m.recs
                  /\ NameIndex' = m.names]_vars

\* --------------------------------------------------------------------- C29
\* C29: with etcd, main has a store, and a server, only while the member is
\* ready: NewEtcdStore passes its select only on readiness; after the timeout
\* the member is stopped and the process has ended without a server and
\* without a request in any slot; and requests are served only by a process
\* that got its store.
C29_StoreOnlyAfterReady ==
    /\ (impl = "etcd" /\ mainPC \in {"clientv3.New", "store", "quit", "Shutdown", "Close"}) => member = "ready"
    /\ (impl = "etcd" /\ server # "none") => member # "starting"
    /\ mainPC = "exit: etcd took too long to start" => member = "stopped"
    /\ mainPC \in StartupExits => (server = "none" /\ \A r \in Slots : reqs[r] = IdleReq)
    /\ (\E r \in Slots : reqs[r] # IdleReq) => mainPC \notin StartupExits \cup {"start", "select", "clientv3.New", "store"}

\* the select timed out: the member is stopped and the process has ended
C29_Witness ==
    /\ mainPC = "exit: etcd took too long to start"
    /\ member = "stopped"
    /\ server = "none"

\* --------------------------------------------------------------------- C30
\* C30: main has returned from EtcdStore.Close only with the member stopped;
\* the store is being closed, or closed, only with the listener closed and no
\* request being served; and a process that has ended after its server was
\* shut down, other than by an error of Shutdown, has closed its etcd store.
C30_ClosedAfterServerStopped ==
    /\ (impl = "etcd" /\ mainPC = "returned") => member = "stopped"
    /\ mainPC \in {"Close", "StopNotify", "returned"} => (server = "closed" /\ Quiet)
    /\ (impl = "etcd" /\ mainPC \in Exits \ {"exit: shutdown error"} /\ server = "closed") => mainPC = "returned"

\* --------------------------------------------------------------------- C31
\* C31: a Stage or Publish that directly follows a successful call of the same
\* verb with the same arguments succeeds and leaves the filesystem as it is;
\* Unstage always succeeds and changes nothing; Unpublish of a target without
\* a marker succeeds and changes nothing; and after an Unpublish that
\* succeeded the marker of its target is absent.
SameCall(a, b) ==
    a.op = b.op /\ a.params = b.params /\ a.path = b.path /\ a.tmp = b.tmp
C31_VerbsIdempotent ==
    [][\A r \in Slots :
        (reqs[r].pc = "idle" /\ reqs'[r].pc = "done" /\ reqs'[r].op \in Verbs) =>
            LET call == reqs'[r]
            IN  /\ (r > 1 /\ call.op \in {"Stage", "Publish"} /\ SameCall(reqs[r - 1], call)
                          /\ reqs[r - 1].resp.error = "") =>
                       (call.resp.error = "" /\ fs' = fs)
                /\ call.op = "Unstage" => (call.resp.error = "" /\ fs' = fs)
                /\ (call.op = "Unpublish" /\ MarkerFile(call.path) \notin fs) =>
                       (call.resp.error = "" /\ fs' = fs)
                /\ (call.op = "Unpublish" /\ call.resp.error = "") => MarkerFile(call.path) \notin fs']_vars

\* a Publish succeeded, the same Publish succeeded again, and an Unpublish of
\* the target then removed the marker
C31_Witness ==
    /\ reqs[1].op = "Publish" /\ reqs[1].resp.error = ""
    /\ reqs[2].pc = "done" /\ SameCall(reqs[1], reqs[2]) /\ reqs[2].resp.error = ""
    /\ reqs[3].op = "Unpublish" /\ reqs[3].path = reqs[1].path /\ reqs[3].resp.error = ""
    /\ MarkerFile(reqs[1].path) \notin fs
    /\ reqs[1].path \in fs

\* --------------------------------------------------------------------- C32
\* C32: a publish request changes a record only if the volume is staged on
\* the publishing node: every step that adds a node to the PublishedOn of a
\* stored record finds that node in the StagedOn of the record.
C32_PublishOnlyWhenStaged ==
    [][\A id \in DOMAIN Records \cap DOMAIN Records' :
          LET old == Records[id]
              new == Records'[id]
          IN  Len(new.PublishedOn) > Len(old.PublishedOn) =>
                  \E k \in 1..Len(old.StagedOn) : old.StagedOn[k] = new.PublishedOn[Len(new.PublishedOn)]]_vars

\* --------------------------------------------------------------------- C33
\* C33: in every reachable state of either store the name index maps a name
\* to an ID exactly when a record with that ID exists and has that name.
C33_NameIndexConsistent ==
    /\ \A n \in DOMAIN NameIndex :
          NameIndex[n] \in DOMAIN Records /\ Records[NameIndex[n]].Name = n
    /\ \A id \in DOMAIN Records :
          Records[id].Name \in DOMAIN NameIndex /\ NameIndex[Records[id].Name] = id

C35_StatusStaysPublished ==
    [][Cardinality({q \in Slots : InFlight(q)}) <= 1 =>
        \A id \in DOMAIN Records \cap DOMAIN Records' :
            (Records[id].Status = VolumeStatusPublished /\ Records[id].PublishedOn # <<>>
                /\ Records'[id].PublishedOn # <<>>) =>
                Records'[id].Status = VolumeStatusPublished]_vars

\* --------------------------------------------------------------------- C36
\* C36: with the MemoryStore, the records of the catalog, which GetVolume and
\* ListVolumes show to readers, change only in a step of CreateVolume,
\* UpdateVolume or DeleteVolume.
C36_RecordsChangeOnlyInStore ==
    [][(impl = "memory" /\ Records' # Records) =>
          \E r \in Slots :
              /\ reqs[r].pc \in {"CreateVolume", "UpdateVolume", "DeleteVolume"}
              /\ reqs'[r] # reqs[r]]_vars

\* --------------------------------------------------------------------- C37
\* the members of an initial cluster string, as etcd reads it: the pieces
\* between the commas, and of each member the name before "=" and the peer
\* URL after it
ClusterMembers(str) ==
    LET parts == SplitAt(str, ",")
    IN  [k \in 1..Len(parts) |-> [name |-> SplitAt(parts[k], "=")[1], peer |-> SplitAt(parts[k], "=")[2]]]

\* what the claim says of the list built for a configuration, but for the
\* presence of the local member
SeededAsNamed(r) ==
    LET service == reqs[r].name
        N == reqs[r].calls
        list == ClusterMembers(reqs[r].tmp)
    IN  /\ N > 1 =>
              /\ Len(list) = N
              /\ \A i, j \in 1..Len(list) : list[i].name = list[j].name => i = j
              /\ \A i \in 1..N :
                    list[i] = [name |-> <<service, "-">> \o Itoa(i),
                               peer |-> <<"http://", service, ".">> \o Itoa(i) \o <<":">> \o Itoa(EtcdPeerPort)]
        /\ N = 1 =>
              /\ Len(list) = 1
              /\ list[1].name = <<service, "-">> \o Itoa(reqs[r].id)
HasLocalMember(r) ==
    \E k \in 1..Len(ClusterMembers(reqs[r].tmp)) :
        ClusterMembers(reqs[r].tmp)[k].name = <<reqs[r].name, "-">> \o Itoa(reqs[r].id)

\* C37: for every configuration the initial cluster built for a cluster size
\* N > 1 has exactly N distinct members, one per ordinal 1..N, named
\* <service>-<i> with the peer address <service>.<i>:<peerPort>, and contains
\* the name of the local member, <service>-<taskSlot>; for cluster size 1 it
\* has the local member only.
C37_InitialCluster ==
    \A r \in Callers :
        (reqs[r].op = "NewEtcdStore" /\ reqs[r].pc = "done") =>
            /\ SeededAsNamed(r)
            /\ reqs[r].calls >= 1 => HasLocalMember(r)

\* C37, amended: the list contains the name of the local member when the task
\* slot is one of the ordinals 1..N.
C37_InitialClusterOfValidSlot ==
    \A r \in Callers :
        (reqs[r].op = "NewEtcdStore" /\ reqs[r].pc = "done") =>
            /\ SeededAsNamed(r)
            /\ (reqs[r].calls > 1 /\ reqs[r].id \in 1..reqs[r].calls) => HasLocalMember(r)
            /\ reqs[r].calls = 1 => HasLocalMember(r)

\* the list for three members, built for the member of slot 2
C37_Witness ==
    \E r \in Callers :
        /\ reqs[r].op = "NewEtcdStore" /\ reqs[r].pc = "done"
        /\ reqs[r].calls = MaxCreators /\ reqs[r].id = 2
        /\ Len(ClusterMembers(reqs[r].tmp)) = MaxCreators
        /\ HasLocalMember(r)

\* --------------------------------------------------------------------- C38
\* C38: every file request that was not answered 'Path traversal not
\* allowed' went on with a path that is the root directory of its volume or
\* lies below it, and the files outside the root stay as they are; a
\* directory beside the root whose name begins with the name of the root is
\* outside.
C38_FilesStayInsideRoot ==
    \A r \in Attachers :
        (reqs[r].pc = "done" /\ reqs[r].op \in {"file_get", "file_put", "file_delete"}
            /\ reqs[r].path # <<>>) =>
            LET root == Lookup(Records[reqs[r].id].Parameters, "path")
            IN  /\ reqs[r].path = root \/ HasPrefix(reqs[r].path, root \o <<"/">>)
                /\ \A q \in fs : q = root \/ HasPrefix(q, root \o <<"/">>)

=============================================================================
